---- MODULE Spec2Model ----
(***************************************************************************)
(* Model of the data-agent backend: the per-session history and the SSE    *)
(* streaming multiplexer (backend/main.py), the query gate                 *)
(* (backend/tools/timescale.py) and the chart tools with their plots       *)
(* directory (backend/tools/plots.py).                                     *)
(*                                                                         *)
(* Python strings are sequences of one-character strings, so startswith,   *)
(* slicing, strip, upper and concatenation are computed, not assumed.      *)
(***************************************************************************)
EXTENDS Integers, Sequences, FiniteSets, TLC

\* ------------------------------------------------------------------ bounds
\* Raw events of one streaming turn in the single-turn specification.
MaxEvents == 4
\* Raw events of one streaming turn in the multi-turn specification.
MaxSessionEvents == 2
\* Turns (requests) in the multi-turn specification.
MaxTurns == 2
\* Raw events of one streaming turn in the specification of event shapes.
MaxShapeEvents == 3
\* Raw events of one streaming turn in the specification of concurrent requests.
MaxConcEvents == 1
\* Raw events of one streaming turn in the specification of the chat client.
MaxClientEvents == 2

\* ----------------------------------------------------------------- strings
StartsWith(s, p) == Len(s) >= Len(p) /\ SubSeq(s, 1, Len(p)) = p

RECURSIVE Join(_)
\* "".join(parts)
Join(parts) == IF parts = <<>> THEN <<>> ELSE Head(parts) \o Join(Tail(parts))

PLOT_PREFIX == <<"P", "L", "O", "T", ":">>
CHART_GENERATED ==
    <<"C", "h", "a", "r", "t", " ", "g", "e", "n", "e", "r", "a", "t", "e", "d", ".">>
PLOTS_MOUNT == <<"/", "p", "l", "o", "t", "s", "/">>
JSON_EXT == <<".", "j", "s", "o", "n">>

\* ------------------------------------------------------------- raw events
\* One raw event of agent.astream_events(version="v2"), as far as generate()
\* reads it: event["event"], event["name"], event["run_id"],
\* event["data"]["chunk"].content, event["data"]["input"], event["data"]["output"].
\* hasdata says whether event["data"] (for a model-stream event, with its
\* "chunk") is there; hastext whether a content block has a "text" key.
NoContent == [tag |-> "none", text |-> <<>>, blocks |-> <<>>]
NoInput == [kind |-> "none", text |-> <<>>, json |-> <<>>]
NoOutput == [wrapped |-> FALSE, content |-> <<>>, repr |-> <<>>]

StrContent(t) == [tag |-> "str", text |-> t, blocks |-> <<>>]
ListContent(bs) == [tag |-> "list", text |-> <<>>, blocks |-> bs]
TextBlock(t) == [isdict |-> TRUE, type |-> "text", text |-> t, hastext |-> TRUE]
OtherBlock == [isdict |-> TRUE, type |-> "tool_use", text |-> <<>>, hastext |-> FALSE]
\* {"type": "text"} with no "text" key.
TextBlockNoText == [isdict |-> TRUE, type |-> "text", text |-> <<>>, hastext |-> FALSE]

ModelStream(c) ==
    [event |-> "on_chat_model_stream", name |-> "", run_id |-> "", hasdata |-> TRUE,
     content |-> c, input |-> NoInput, output |-> NoOutput]
ToolStart(n, r, i) ==
    [event |-> "on_tool_start", name |-> n, run_id |-> r, hasdata |-> TRUE,
     content |-> NoContent, input |-> i, output |-> NoOutput]
ToolEnd(r, o) ==
    [event |-> "on_tool_end", name |-> "", run_id |-> r, hasdata |-> TRUE,
     content |-> NoContent, input |-> NoInput, output |-> o]
OtherEvent ==
    [event |-> "on_chain_start", name |-> "", run_id |-> "", hasdata |-> TRUE,
     content |-> NoContent, input |-> NoInput, output |-> NoOutput]
\* An event of the given kind with no "data" (or, for a model-stream event,
\* no "chunk" in it).
NoData(kind, r) ==
    [event |-> kind, name |-> "", run_id |-> r, hasdata |-> FALSE,
     content |-> NoContent, input |-> NoInput, output |-> NoOutput]

\* --------------------------------------------------- normalized SSE events
Blank ==
    [type |-> "", run_id |-> "", name |-> "", input |-> <<>>, output |-> <<>>,
     path |-> <<>>, token |-> <<>>]
TokenEvent(t) == [Blank EXCEPT !.type = "token", !.token = t]
ToolStartEvent(r, n, i) ==
    [Blank EXCEPT !.type = "tool_start", !.run_id = r, !.name = n, !.input = i]
ToolEndEvent(r, o) == [Blank EXCEPT !.type = "tool_end", !.run_id = r, !.output = o]
PlotlyEvent(r, p) == [Blank EXCEPT !.type = "plotly", !.run_id = r, !.path = p]
\* The terminal line "data: [DONE]".
DoneEvent == [Blank EXCEPT !.type = "[DONE]"]

\* ------------------------------------------------- generate(): one raw event
\* `if not content: continue`: None, "" and [] are falsy.
Falsy(c) ==
    \/ c.tag = "none"
    \/ c.tag = "str" /\ c.text = <<>>
    \/ c.tag = "list" /\ c.blocks = <<>>

IsTextBlock(b) == b.isdict /\ b.type = "text"

\* block["text"] raises KeyError.
BadBlock(b) == IsTextBlock(b) /\ ~b.hastext

RECURSIVE BlockTokens(_)
\* The tokens the loop over the blocks yields, up to the block that raises.
BlockTokens(bs) ==
    IF bs = <<>> \/ BadBlock(Head(bs)) THEN <<>>
    ELSE (IF IsTextBlock(Head(bs)) THEN <<TokenEvent(Head(bs).text)>> ELSE <<>>)
         \o BlockTokens(Tail(bs))

OnChatModelStream(ev) ==
    IF Falsy(ev.content) THEN <<>>
    ELSE IF ev.content.tag = "list" THEN BlockTokens(ev.content.blocks)
    ELSE <<TokenEvent(ev.content.text)>>

\* json.dumps for a non-string input that serializes, str() when it does not.
InputPayload(i) == IF i.kind = "json" THEN i.json ELSE i.text

OnToolStart(ev) == <<ToolStartEvent(ev.run_id, ev.name, InputPayload(ev.input))>>

OutputStr(o) == IF o.wrapped THEN o.content ELSE o.repr

PlotUid(output_str) == SubSeq(output_str, Len(PLOT_PREFIX) + 1, Len(output_str))

PlotPath(uid) == PLOTS_MOUNT \o uid \o JSON_EXT

\* Mutant of OnToolEnd: the output is not replaced by the placeholder.
OnToolEndLeak(ev) ==
    LET output_str == OutputStr(ev.output) IN
    IF StartsWith(output_str, PLOT_PREFIX)
    THEN <<PlotlyEvent(ev.run_id, PlotPath(PlotUid(output_str))),
           ToolEndEvent(ev.run_id, output_str)>>
    ELSE <<ToolEndEvent(ev.run_id, output_str)>>

OnToolEnd(ev) ==
    LET output_str == OutputStr(ev.output) IN
    IF StartsWith(output_str, PLOT_PREFIX)
    THEN <<PlotlyEvent(ev.run_id, PlotPath(PlotUid(output_str))),
           ToolEndEvent(ev.run_id, CHART_GENERATED)>>
    ELSE <<ToolEndEvent(ev.run_id, output_str)>>

\* event["data"]["chunk"] (line 83) or event["data"] (lines 100, 110) raises
\* KeyError.
MissingData(ev) ==
    ev.event \in {"on_chat_model_stream", "on_tool_start", "on_tool_end"} /\ ~ev.hasdata

\* Handling the raw event ends in an exception, which nothing in generate()
\* catches.
Raises(ev) ==
    \/ MissingData(ev)
    \/ /\ ev.event = "on_chat_model_stream"
       /\ ~Falsy(ev.content)
       /\ ev.content.tag = "list"
       /\ \E i \in 1..Len(ev.content.blocks) : BadBlock(ev.content.blocks[i])

\* The items generate() yields for one raw event, in yield order.
Normalize(ev) ==
    IF MissingData(ev) THEN <<>>
    ELSE IF ev.event = "on_chat_model_stream" THEN OnChatModelStream(ev)
    ELSE IF ev.event = "on_tool_start" THEN OnToolStart(ev)
    ELSE IF ev.event = "on_tool_end" THEN OnToolEnd(ev)
    ELSE <<>>

\* ------------------------------------------------------------------ state
Sessions == {"s1", "s2"}
\* Request handler instances (one per HTTP request being served).
Gens == {1, 2}
\* request.message of the n-th request: the text plays no part in the control
\* flow, and numbering it makes each turn's entry recognisable in the history.
Digit == <<"1", "2", "3", "4", "5", "6", "7", "8", "9">>
UserMessages(n) == {<<"m", Digit[n]>>}
\* last_message.content of a non-streaming turn.
Replies == {<<>>, <<"o", "k">>}

X == <<"x">>
Y == <<"y">>
UID1 == <<"a", "1">>
OK_TEXT == <<"o", "k">>
StrInput(t) == [kind |-> "str", text |-> t, json |-> <<>>]
JsonInput(t, j) == [kind |-> "json", text |-> t, json |-> j]
Wrapped(t) == [wrapped |-> TRUE, content |-> t, repr |-> <<"T", "M">>]
Plain(t) == [wrapped |-> FALSE, content |-> <<>>, repr |-> t]

SmallEvents ==
    {ModelStream(StrContent(X)),
     ToolEnd("B", Wrapped(PLOT_PREFIX \o UID1))}

RichEvents ==
    SmallEvents \cup
    {ModelStream(StrContent(Y)),
     ToolStart("plot_timeseries", "B", JsonInput(<<"{", "'", "}">>, <<"{", "\"", "}">>)),
     ModelStream(StrContent(<<>>)),
     ModelStream(ListContent(<<TextBlock(X), OtherBlock, TextBlock(Y)>>)),
     ToolStart("query_sensor_data", "A", StrInput(<<"s">>)),
     ToolEnd("A", Plain(OK_TEXT)),
     OtherEvent}

\* The raw events of tool runs: a start and an end of run A, and an end of
\* run B (a chart) that no start precedes.
ToolEvents ==
    {ToolStart("query_sensor_data", "A", StrInput(<<"s">>)),
     ToolEnd("A", Plain(OK_TEXT)),
     ToolEnd("B", Wrapped(PLOT_PREFIX \o UID1))}

\* Raw events of every shape generate() tells apart.
ShapeEvents ==
    {ModelStream(StrContent(X)),
     ModelStream(StrContent(<<>>)),
     ModelStream(NoContent),
     ModelStream(ListContent(<<TextBlock(<<>>)>>)),
     ModelStream(ListContent(<<OtherBlock>>)),
     ModelStream(ListContent(<<TextBlock(X), TextBlockNoText, TextBlock(Y)>>)),
     NoData("on_chat_model_stream", ""),
     NoData("on_tool_start", "A"),
     NoData("on_tool_end", "A"),
     ToolEnd("A", Plain(OK_TEXT)),
     OtherEvent}

VARIABLES
    histories,         \* _histories: session_id -> list of {role, content}
    pc,                \* where each request handler stands
    sess,              \* request.session_id of each handler
    message,           \* request.message of each handler
    agent_messages,    \* the {"messages": list(history)} handed to the agent
    assistant_tokens,  \* generate(): the accumulator
    pending,           \* generate(): items of the current raw event still to yield
    out,               \* the items the consumer of generate() has received
    prov,              \* for each item of out, the position of its raw event
    raw,               \* the raw events the agent runtime has delivered
    response,          \* chat(): the returned {"response": ...}
    agentLog,          \* every call of the agent runtime, in call order
    turnOf,            \* each handler's entry of agentLog (0: agent not called)
    nturns,            \* requests accepted so far
    lim                \* the bounds of this run: events per turn, turns, alphabet, sessions

sessionVars ==
    <<histories, pc, sess, message, agent_messages, assistant_tokens, pending, out,
      prov, raw, response, agentLog, turnOf, nturns, lim>>

UserEntry(m) == [role |-> "user", content |-> m]

\* Mutant of AssistantEntry: the entry is appended without the content.
AssistantEntryBlank(c) == [role |-> "assistant", content |-> <<>>]

AssistantEntry(c) == [role |-> "assistant", content |-> c]

\* Mutant of History: one list is shared by all sessions.
HistoryShared(hs, sid) == hs["s1"]

\* history = _histories[request.session_id] (main.py:62, 72): the list kept
\* under the key, an empty list for a key not seen before (defaultdict).
History(hs, sid) == hs[sid]

\* Mutant of Snapshot: the agent is handed the history without its last entry.
SnapshotStale(h) == SubSeq(h, 1, Len(h) - 1)

\* list(history): a copy of the session's entries at the time of the call.
Snapshot(h) == h

\* Mutant of StreamEndHistory: the append of line 121 is missing.
StreamEndHistoryNone(h, tokens) == h

\* Mutant of StreamEndHistory: only the last token is kept.
StreamEndHistoryLastToken(h, tokens) ==
    Append(h, AssistantEntry(IF tokens = <<>> THEN <<>> ELSE tokens[Len(tokens)]))

\* Mutant of StreamEndHistory: the entry is appended twice.
StreamEndHistoryTwice(h, tokens) ==
    Append(Append(h, AssistantEntry(Join(tokens))), AssistantEntry(Join(tokens)))

\* history.append after the raw event source is exhausted (main.py:121).
StreamEndHistory(h, tokens) == Append(h, AssistantEntry(Join(tokens)))

\* Mutant of AbortHistory: a finally clause appends what was accumulated.
AbortHistoryPartial(h, tokens) == Append(h, AssistantEntry(Join(tokens)))

\* The history as a streaming turn leaves it when generate() is closed or
\* raises before line 121: there is no finally clause, nothing is appended.
AbortHistory(h, tokens) == h

\* Mutant of AbortOut: a finally clause yields the sentinel.
AbortOutSentinel(o) == Append(o, DoneEvent)

\* What the consumer has received when generate() is closed or raises: the
\* items yielded so far, and no sentinel.
AbortOut(o) == o

\* Mutant of Emit: new items are put in front of the earlier ones.
EmitInFront(o, items) == items \o o

\* yield: the consumer receives the items in the order they are yielded.
Emit(o, items) == o \o items

TokenTexts(items) ==
    [i \in 1..Len(SelectSeq(items, LAMBDA e: e.type = "token")) |->
        SelectSeq(items, LAMBDA e: e.type = "token")[i].token]

Free(g) ==
    pc[g] \in {"idle", "done", "cancelled", "failed", "crashed", "returned", "raised"}
AllFree == \A g \in Gens : Free(g)

Alphabet ==
    IF lim.alphabet = "rich" THEN RichEvents
    ELSE IF lim.alphabet = "tools" THEN ToolEvents
    ELSE IF lim.alphabet = "shapes" THEN ShapeEvents
    ELSE SmallEvents

InitSession(l) ==
    /\ histories = [s \in Sessions |-> <<>>]
    /\ pc = [g \in Gens |-> "idle"]
    /\ sess = [g \in Gens |-> "s1"]
    /\ message = [g \in Gens |-> <<>>]
    /\ agent_messages = [g \in Gens |-> <<>>]
    /\ assistant_tokens = [g \in Gens |-> <<>>]
    /\ pending = [g \in Gens |-> <<>>]
    /\ out = [g \in Gens |-> <<>>]
    /\ prov = [g \in Gens |-> <<>>]
    /\ raw = [g \in Gens |-> <<>>]
    /\ response = [g \in Gens |-> <<>>]
    /\ agentLog = <<>>
    /\ turnOf = [g \in Gens |-> 0]
    /\ nturns = 0
    /\ lim = l

ResetLocals(g) ==
    /\ assistant_tokens' = [assistant_tokens EXCEPT ![g] = <<>>]
    /\ pending' = [pending EXCEPT ![g] = <<>>]
    /\ out' = [out EXCEPT ![g] = <<>>]
    /\ prov' = [prov EXCEPT ![g] = <<>>]
    /\ raw' = [raw EXCEPT ![g] = <<>>]
    /\ response' = [response EXCEPT ![g] = <<>>]

LogCall(g, msgs, ep) ==
    /\ agentLog' = Append(agentLog,
           [sid |-> sess[g], endpoint |-> ep, messages |-> msgs,
            status |-> "running", reply |-> <<>>, emitted |-> 0])
    /\ turnOf' = [turnOf EXCEPT ![g] = Len(agentLog) + 1]

LogEnd(g, st, r) ==
    agentLog' = IF turnOf[g] = 0 THEN agentLog
                ELSE [agentLog EXCEPT ![turnOf[g]].status = st, ![turnOf[g]].reply = r,
                                      ![turnOf[g]].emitted = Len(out[g])]

\* POST /chat/stream up to `return StreamingResponse(generate())`: the user
\* message is appended; the body of generate() has not started to run.
ChatStream(g, s, m) ==
    /\ Free(g)
    /\ nturns < lim.turns
    /\ histories' = [histories EXCEPT ![s] = Append(History(histories, s), UserEntry(m))]
    /\ pc' = [pc EXCEPT ![g] = "accepted"]
    /\ sess' = [sess EXCEPT ![g] = s]
    /\ message' = [message EXCEPT ![g] = m]
    /\ agent_messages' = [agent_messages EXCEPT ![g] = <<>>]
    /\ turnOf' = [turnOf EXCEPT ![g] = 0]
    /\ nturns' = nturns + 1
    /\ ResetLocals(g)
    /\ UNCHANGED <<agentLog, lim>>

\* The first __anext__ of generate(): assistant_tokens = [], the call of
\* agent.astream_events({"messages": list(history)}), then the first await.
GenStart(g) ==
    /\ pc[g] = "accepted"
    /\ agent_messages' = [agent_messages EXCEPT ![g] = Snapshot(histories[sess[g]])]
    /\ LogCall(g, Snapshot(histories[sess[g]]), "stream")
    /\ pc' = [pc EXCEPT ![g] = "await"]
    /\ UNCHANGED <<histories, sess, message, assistant_tokens, pending, out, prov, raw,
                   response, nturns, lim>>

\* The agent runtime delivers raw event ev; generate() runs to its next yield,
\* or back to the await when the event yields nothing, or out of generate()
\* when handling the event raises before any yield.
RawEvent(g, ev) ==
    /\ pc[g] = "await"
    /\ Len(raw[g]) < lim.events
    /\ raw' = [raw EXCEPT ![g] = Append(@, ev)]
    /\ LET items == Normalize(ev) IN
       IF items = <<>> /\ Raises(ev)
       THEN /\ histories' = [histories EXCEPT
                   ![sess[g]] = AbortHistory(@, assistant_tokens[g])]
            /\ out' = [out EXCEPT ![g] = AbortOut(@)]
            /\ pc' = [pc EXCEPT ![g] = "crashed"]
            /\ LogEnd(g, "crashed", <<>>)
            /\ UNCHANGED <<pending, prov, assistant_tokens>>
       ELSE IF items = <<>>
       THEN UNCHANGED <<pc, pending, out, prov, assistant_tokens, histories, agentLog>>
       ELSE /\ pc' = [pc EXCEPT ![g] = "yield"]
            /\ pending' = [pending EXCEPT ![g] = Tail(items)]
            /\ out' = [out EXCEPT ![g] = Emit(@, <<Head(items)>>)]
            /\ prov' = [prov EXCEPT ![g] = Append(@, Len(raw[g]) + 1)]
            /\ assistant_tokens' =
                   [assistant_tokens EXCEPT ![g] = @ \o TokenTexts(<<Head(items)>>)]
            /\ UNCHANGED <<histories, agentLog>>
    /\ UNCHANGED <<sess, message, agent_messages, response, turnOf, nturns, lim>>

\* The consumer asks for the next item: generate() resumes after its yield,
\* and goes on to the next yield of the raw event, to the exception the event
\* ends in, or back to the await.
Resume(g) ==
    /\ pc[g] = "yield"
    /\ IF pending[g] = <<>> /\ Raises(raw[g][Len(raw[g])])
       THEN /\ histories' = [histories EXCEPT
                   ![sess[g]] = AbortHistory(@, assistant_tokens[g])]
            /\ out' = [out EXCEPT ![g] = AbortOut(@)]
            /\ pc' = [pc EXCEPT ![g] = "crashed"]
            /\ LogEnd(g, "crashed", <<>>)
            /\ UNCHANGED <<pending, prov, assistant_tokens>>
       ELSE IF pending[g] = <<>>
       THEN /\ pc' = [pc EXCEPT ![g] = "await"]
            /\ UNCHANGED <<pending, out, prov, assistant_tokens, histories, agentLog>>
       ELSE /\ pending' = [pending EXCEPT ![g] = Tail(@)]
            /\ out' = [out EXCEPT ![g] = Emit(@, <<Head(pending[g])>>)]
            /\ prov' = [prov EXCEPT ![g] = Append(@, Len(raw[g]))]
            /\ assistant_tokens' =
                   [assistant_tokens EXCEPT ![g] = @ \o TokenTexts(<<Head(pending[g])>>)]
            /\ UNCHANGED <<pc, histories, agentLog>>
    /\ UNCHANGED <<sess, message, agent_messages, raw, response, turnOf, nturns, lim>>

\* The raw event source is exhausted: the loop ends and line 121 appends.
StreamEnd(g) ==
    /\ pc[g] = "await"
    /\ histories' = [histories EXCEPT
           ![sess[g]] = StreamEndHistory(@, assistant_tokens[g])]
    /\ pc' = [pc EXCEPT ![g] = "appended"]
    /\ LogEnd(g, "done", Join(assistant_tokens[g]))
    /\ UNCHANGED <<sess, message, agent_messages, assistant_tokens, pending, out, prov,
                   raw, response, turnOf, nturns, lim>>

\* Line 122: yield "data: [DONE]\n\n".
EmitDone(g) ==
    /\ pc[g] = "appended"
    /\ out' = [out EXCEPT ![g] = Emit(@, <<DoneEvent>>)]
    /\ prov' = [prov EXCEPT ![g] = Append(@, Len(raw[g]) + 1)]
    /\ pc' = [pc EXCEPT ![g] = "yield_done"]
    /\ UNCHANGED <<histories, sess, message, agent_messages, assistant_tokens, pending,
                   raw, response, agentLog, turnOf, nturns, lim>>

\* The consumer resumes (or closes) generate() after the sentinel: it returns.
Finish(g) ==
    /\ pc[g] = "yield_done"
    /\ pc' = [pc EXCEPT ![g] = "done"]
    /\ UNCHANGED <<histories, sess, message, agent_messages, assistant_tokens, pending,
                   out, prov, raw, response, agentLog, turnOf, nturns, lim>>

\* The consumer stops iterating (client disconnect, frontend task.cancel()):
\* generate() is closed at the point where it is suspended.
Cancel(g) ==
    /\ pc[g] \in {"accepted", "await", "yield"}
    /\ histories' = [histories EXCEPT
           ![sess[g]] = AbortHistory(@, assistant_tokens[g])]
    /\ out' = [out EXCEPT ![g] = AbortOut(@)]
    /\ pc' = [pc EXCEPT ![g] = "cancelled"]
    /\ LogEnd(g, "cancelled", <<>>)
    /\ UNCHANGED <<sess, message, agent_messages, assistant_tokens, pending, prov,
                   raw, response, turnOf, nturns, lim>>

\* Iterating agent.astream_events raises: the exception leaves generate().
RawFail(g) ==
    /\ pc[g] = "await"
    /\ histories' = [histories EXCEPT
           ![sess[g]] = AbortHistory(@, assistant_tokens[g])]
    /\ out' = [out EXCEPT ![g] = AbortOut(@)]
    /\ pc' = [pc EXCEPT ![g] = "failed"]
    /\ LogEnd(g, "failed", <<>>)
    /\ UNCHANGED <<sess, message, agent_messages, assistant_tokens, pending, prov,
                   raw, response, turnOf, nturns, lim>>

\* POST /chat up to `await agent.ainvoke({"messages": list(history)})`.
Chat(g, s, m) ==
    /\ Free(g)
    /\ nturns < lim.turns
    /\ histories' = [histories EXCEPT ![s] = Append(History(histories, s), UserEntry(m))]
    /\ agent_messages' = [agent_messages EXCEPT
           ![g] = Snapshot(Append(histories[s], UserEntry(m)))]
    /\ agentLog' = Append(agentLog,
           [sid |-> s, endpoint |-> "chat",
            messages |-> Snapshot(Append(histories[s], UserEntry(m))),
            status |-> "running", reply |-> <<>>, emitted |-> 0])
    /\ turnOf' = [turnOf EXCEPT ![g] = Len(agentLog) + 1]
    /\ pc' = [pc EXCEPT ![g] = "invoking"]
    /\ sess' = [sess EXCEPT ![g] = s]
    /\ message' = [message EXCEPT ![g] = m]
    /\ nturns' = nturns + 1
    /\ ResetLocals(g)
    /\ UNCHANGED lim

\* ainvoke returns; last_message.content is appended and returned.
ChatReturn(g, content) ==
    /\ pc[g] = "invoking"
    /\ histories' = [histories EXCEPT ![sess[g]] = Append(@, AssistantEntry(content))]
    /\ response' = [response EXCEPT ![g] = content]
    /\ pc' = [pc EXCEPT ![g] = "returned"]
    /\ LogEnd(g, "done", content)
    /\ UNCHANGED <<sess, message, agent_messages, assistant_tokens, pending, out, prov,
                   raw, turnOf, nturns, lim>>

\* ainvoke raises: the exception leaves chat().
ChatFail(g) ==
    /\ pc[g] = "invoking"
    /\ pc' = [pc EXCEPT ![g] = "raised"]
    /\ LogEnd(g, "failed", <<>>)
    /\ UNCHANGED <<histories, sess, message, agent_messages, assistant_tokens, pending,
                   out, prov, raw, response, turnOf, nturns, lim>>

\* ------------------------------------------------------ streaming: claims
Last(s) == s[Len(s)]

HasDone(o) == \E i \in 1..Len(o) : o[i].type = "[DONE]"

RECURSIVE EmittedText(_)
\* The token texts of the emitted items, concatenated in emission order.
EmittedText(o) ==
    IF o = <<>> THEN <<>>
    ELSE (IF Head(o).type = "token" THEN Head(o).token ELSE <<>>) \o EmittedText(Tail(o))

\* s contains sub as a contiguous substring.
Contains(s, sub) ==
    \E i \in 1..(Len(s) - Len(sub) + 1) : SubSeq(s, i, i + Len(sub) - 1) = sub

\* The raw event kind an emitted item comes from.
KindOf(item) ==
    CASE item.type = "token" -> "on_chat_model_stream"
      [] item.type = "tool_start" -> "on_tool_start"
      [] item.type \in {"tool_end", "plotly"} -> "on_tool_end"
      [] OTHER -> "none"

\* Raw event p of handler g has been processed to its end: generate() has
\* gone on to a later raw event, or has yielded the last item of this one.
Processed(g, p) == p < Len(raw[g]) \/ (p = Len(raw[g]) /\ pending[g] = <<>>)

ItemsOf(g, p) ==
    LET idx == {i \in 1..Len(out[g]) : prov[g][i] = p /\ out[g][i].type # "[DONE]"} IN
    [k \in 1..Cardinality(idx) |->
        out[g][CHOOSE i \in idx : Cardinality({j \in idx : j < i}) = k - 1]]

\* C1: the normalized events are emitted in the order of the raw events that
\* produced them: the raw positions of the emitted items never decrease, each
\* item has the kind and run_id of its raw event, nothing of an already
\* processed raw event is held back, a tool_start is emitted before the
\* tool_end of the same run_id when the raw stream has them in that order, and
\* [tool_start(A), token x, tool_end(A), token y] is emitted as exactly that.
C1_OrderPreserved ==
    \A g \in Gens :
        LET o == out[g]  r == raw[g] IN
        /\ Len(prov[g]) = Len(o)
        /\ \A i, j \in 1..Len(o) : i < j => prov[g][i] <= prov[g][j]
        /\ \A i \in 1..Len(o) :
               o[i].type # "[DONE]" =>
                   /\ prov[g][i] \in 1..Len(r)
                   /\ r[prov[g][i]].event = KindOf(o[i])
                   /\ r[prov[g][i]].run_id = o[i].run_id
        /\ \A p \in 1..Len(r) :
               Processed(g, p) =>
                   /\ r[p].event = "on_tool_start" =>
                          \E i \in 1..Len(o) : prov[g][i] = p /\ o[i].type = "tool_start"
                   /\ r[p].event = "on_tool_end" =>
                          \E i \in 1..Len(o) : prov[g][i] = p /\ o[i].type = "tool_end"
                   /\ (r[p].event = "on_chat_model_stream" /\ r[p].content.tag = "str"
                       /\ r[p].content.text # <<>>) =>
                          \E i \in 1..Len(o) :
                              prov[g][i] = p /\ o[i] = TokenEvent(r[p].content.text)
        /\ \A p, q \in 1..Len(r) :
               (p < q /\ r[p].event = "on_tool_start" /\ r[q].event = "on_tool_end"
                /\ r[p].run_id = r[q].run_id /\ Processed(g, q)) =>
                   \E i, j \in 1..Len(o) :
                       /\ i < j
                       /\ prov[g][i] = p /\ o[i].type = "tool_start"
                       /\ prov[g][j] = q /\ o[j].type = "tool_end"
                       /\ o[i].run_id = o[j].run_id
        /\ (r = <<ToolStart("query_sensor_data", "A", StrInput(<<"s">>)),
                  ModelStream(StrContent(X)), ToolEnd("A", Plain(OK_TEXT)),
                  ModelStream(StrContent(Y))>>
            /\ pc[g] = "await") =>
               o = <<ToolStartEvent("A", "query_sensor_data", <<"s">>), TokenEvent(X),
                     ToolEndEvent("A", OK_TEXT), TokenEvent(Y)>>

\* Witness of C1: the scripted sequence has been consumed and emitted.
C1_Witness ==
    /\ raw[1] = <<ToolStart("query_sensor_data", "A", StrInput(<<"s">>)),
                  ModelStream(StrContent(X)), ToolEnd("A", Plain(OK_TEXT)),
                  ModelStream(StrContent(Y))>>
    /\ pc[1] = "await"
    /\ Len(out[1]) = 4

\* C2: when a streaming turn has run to the end of the raw event source, the
\* session history is the list handed to the agent plus exactly one assistant
\* entry, whose content is the concatenation, in emission order, of the token
\* texts that were emitted (empty when no token was emitted).
C2_OneAssistantEntry ==
    \A g \in Gens :
        pc[g] \in {"appended", "yield_done", "done"} =>
            /\ Len(histories[sess[g]]) = Len(agent_messages[g]) + 1
            /\ SubSeq(histories[sess[g]], 1, Len(agent_messages[g])) = agent_messages[g]
            /\ Last(histories[sess[g]]) =
                   [role |-> "assistant", content |-> EmittedText(out[g])]
            /\ Cardinality({i \in 1..Len(histories[sess[g]]) :
                               histories[sess[g]][i].role = "assistant"}) = 1

\* Witness of C2: a finished streaming turn that emitted tokens from a string
\* chunk and from a list chunk, and tool events between them.
C2_Witness ==
    /\ pc[1] = "done"
    /\ Last(histories["s1"]).content = <<"y", "x", "y">>
    /\ \E i \in 1..Len(out[1]) : out[1][i].type = "tool_end"

\* C2 also covers the turn without tokens.
C2_WitnessEmpty ==
    /\ pc[1] = "done"
    /\ Len(raw[1]) > 0
    /\ Last(histories["s1"]) = [role |-> "assistant", content |-> <<>>]

\* C3: the sentinel is emitted at most once and only as the last item, a
\* streaming turn that completed has emitted it, and whenever it has been
\* emitted the assistant entry is already in the history.
C3_DoneLast ==
    \A g \in Gens :
        LET o == out[g] IN
        /\ \A i \in 1..Len(o) : o[i].type = "[DONE]" => i = Len(o)
        /\ pc[g] \in {"yield_done", "done"} => HasDone(o)
        /\ HasDone(o) =>
               /\ pc[g] \in {"yield_done", "done"}
               /\ Len(histories[sess[g]]) = Len(agent_messages[g]) + 1
               /\ Last(histories[sess[g]]).role = "assistant"

\* Witness of C3: the sentinel was emitted after other items.
C3_Witness ==
    /\ pc[1] = "yield_done"
    /\ Len(out[1]) = 4
    /\ out[1][4] = DoneEvent
    /\ out[1][3].type = "tool_end"

\* C7: a tool-end raw event whose output text begins with PLOT: is emitted as
\* a plotly event for its run_id whose path is /plots/<id>.json, <id> being
\* the text after the prefix, followed by a tool_end event for the same run_id
\* whose output is "Chart generated."; no emitted tool_end or token carries
\* the PLOT: text and the accumulated assistant text does not contain it.
C7_PlotIndirection ==
    \A g \in Gens :
        /\ \A p \in 1..Len(raw[g]) :
               LET text == IF raw[g][p].output.wrapped THEN raw[g][p].output.content
                           ELSE raw[g][p].output.repr
               IN
               (raw[g][p].event = "on_tool_end" /\ Len(text) >= 5
                /\ SubSeq(text, 1, 5) = <<"P", "L", "O", "T", ":">> /\ Processed(g, p)) =>
                   ItemsOf(g, p) =
                       <<[Blank EXCEPT !.type = "plotly", !.run_id = raw[g][p].run_id,
                                       !.path = <<"/", "p", "l", "o", "t", "s", "/">>
                                                \o SubSeq(text, 6, Len(text))
                                                \o <<".", "j", "s", "o", "n">>],
                         [Blank EXCEPT !.type = "tool_end", !.run_id = raw[g][p].run_id,
                                       !.output = CHART_GENERATED]>>
        /\ \A i \in 1..Len(out[g]) :
               /\ out[g][i].type = "tool_end" => ~Contains(out[g][i].output, PLOT_PREFIX)
               /\ out[g][i].type = "token" => ~Contains(out[g][i].token, PLOT_PREFIX)
               /\ out[g][i].type = "plotly" =>
                      (i < Len(out[g]) =>
                           /\ out[g][i + 1].type = "tool_end"
                           /\ out[g][i + 1].run_id = out[g][i].run_id)
        /\ ~Contains(Join(assistant_tokens[g]), PLOT_PREFIX)
        /\ \A i \in 1..Len(histories[sess[g]]) :
               ~Contains(histories[sess[g]][i].content, PLOT_PREFIX)

\* Witness of C7: a PLOT: tool end was processed and the turn completed.
C7_Witness ==
    /\ pc[1] = "done"
    /\ \E p \in 1..Len(raw[1]) :
           /\ raw[1][p] = ToolEnd("B", Wrapped(PLOT_PREFIX \o UID1))
           /\ Len(ItemsOf(1, p)) = 2


\* ------------------------------------------------------- sessions: claims
AssistantCount(h) == Cardinality({i \in 1..Len(h) : h[i].role = "assistant"})

\* The agent calls on session s that ran to their end.
TurnsDone(s) ==
    Cardinality({i \in 1..Len(agentLog) :
                    agentLog[i].sid = s /\ agentLog[i].status = "done"})

\* Agent calls i and j are consecutive calls on the same session.
NextCall(i, j) ==
    /\ i < j
    /\ agentLog[i].sid = agentLog[j].sid
    /\ \A k \in (i + 1)..(j - 1) : agentLog[k].sid # agentLog[i].sid

IsPrefix(a, b) == Len(a) <= Len(b) /\ SubSeq(b, 1, Len(a)) = a

\* C4: a streaming turn cancelled before the raw event source is exhausted
\* has emitted no sentinel and has appended no assistant entry: the history
\* still ends with the turn's user message, every assistant entry of a
\* session belongs to a turn that ran to its end, and the next agent call on
\* the session is handed the cancelled turn's list followed by user entries only.
C4_CancelNoAppend ==
    /\ \A g \in Gens :
           pc[g] = "cancelled" =>
               /\ ~HasDone(out[g])
               /\ Last(histories[sess[g]]) = [role |-> "user", content |-> message[g]]
               /\ turnOf[g] # 0 => histories[sess[g]] = agent_messages[g]
    /\ \A s \in Sessions : AssistantCount(histories[s]) = TurnsDone(s)
    /\ \A i, j \in 1..Len(agentLog) :
           (NextCall(i, j) /\ agentLog[i].status = "cancelled") =>
               /\ IsPrefix(agentLog[i].messages, agentLog[j].messages)
               /\ \A k \in (Len(agentLog[i].messages) + 1)..Len(agentLog[j].messages) :
                      agentLog[j].messages[k].role = "user"

\* Witness of C4: a turn was cancelled after it had emitted items, and the
\* next turn of the session has called the agent.
C4_Witness ==
    \E i, j \in 1..Len(agentLog) :
        /\ NextCall(i, j)
        /\ agentLog[i].status = "cancelled"
        /\ agentLog[i].emitted >= 1
        /\ Len(agentLog[j].messages) = Len(agentLog[i].messages) + 1

\* C5: when iterating the raw event source fails, the turn ends failed with
\* no sentinel emitted and no assistant entry appended; the history is the
\* list handed to the agent, which ends with the turn's user message.
C5_TransportFailure ==
    \A g \in Gens :
        pc[g] = "failed" =>
            /\ ~HasDone(out[g])
            /\ histories[sess[g]] = agent_messages[g]
            /\ Last(histories[sess[g]]) = [role |-> "user", content |-> message[g]]
            /\ AssistantCount(histories[sess[g]]) = TurnsDone(sess[g])

\* Witness of C5: the failure came after items had been emitted, in a session
\* with an earlier completed turn.
C5_Witness ==
    /\ pc[1] = "failed"
    /\ Len(out[1]) >= 1
    /\ Len(histories[sess[1]]) = 3

\* C6: with turns run one after another, the list handed to the agent on a
\* turn is the session's history at that time, which ends with the turn's
\* user message; the turn's assistant entry is appended after that list, and
\* the next call on the session is handed a list that extends it by that entry.
C6_AgentInput ==
    /\ \A g \in Gens :
           /\ pc[g] \in {"await", "yield", "invoking"} =>
                  agent_messages[g] = histories[sess[g]]
           /\ turnOf[g] # 0 =>
                  /\ agentLog[turnOf[g]].messages = agent_messages[g]
                  /\ Len(agent_messages[g]) >= 1
                  /\ Last(agent_messages[g]) = [role |-> "user", content |-> message[g]]
           /\ pc[g] \in {"appended", "yield_done", "done", "returned"} =>
                  /\ histories[sess[g]] =
                         Append(agent_messages[g],
                                [role |-> "assistant",
                                 content |-> agentLog[turnOf[g]].reply])
    /\ \A i, j \in 1..Len(agentLog) :
           NextCall(i, j) =>
               /\ IsPrefix(agentLog[i].messages, agentLog[j].messages)
               /\ Len(agentLog[j].messages) > Len(agentLog[i].messages)
               /\ agentLog[i].status = "done" =>
                      agentLog[j].messages[Len(agentLog[i].messages) + 1] =
                          [role |-> "assistant", content |-> agentLog[i].reply]
               /\ agentLog[i].status # "done" =>
                      agentLog[j].messages[Len(agentLog[i].messages) + 1].role = "user"

\* Witness of C6: a streaming turn that emitted a token is followed by a turn
\* on the same session whose agent input holds the first turn's entry.
C6_Witness ==
    \E i, j \in 1..Len(agentLog) :
        /\ NextCall(i, j)
        /\ agentLog[i].endpoint = "stream"
        /\ agentLog[i].status = "done"
        /\ agentLog[i].reply = <<"x">>
        /\ Len(agentLog[j].messages) = 3

\* Turns run one after another: a request is accepted only when no other
\* request is being served.

\* ------------------------------------------------- event shapes: claims
\* A raw event whose shape is not what generate() expects: an unknown kind,
\* an event without its data, a content list with a text block without text.
Mismatch(ev) ==
    \/ ev.event \notin {"on_chat_model_stream", "on_tool_start", "on_tool_end"}
    \/ ~ev.hasdata
    \/ /\ ev.event = "on_chat_model_stream"
       /\ ev.content.tag = "list"
       /\ \E i \in 1..Len(ev.content.blocks) :
              ev.content.blocks[i].type = "text" /\ ~ev.content.blocks[i].hastext

\* C19: a raw event of an unexpected shape is skipped: the turn is not
\* aborted by it, an event of an unknown kind or without data produces no
\* item, and a turn that has ended without a cancellation or a failure of
\* the event source has appended the assistant entry and emitted [DONE].
C19_MismatchSkipped ==
    \A g \in Gens :
        /\ pc[g] # "crashed"
        /\ \A p \in 1..Len(raw[g]) :
               (Mismatch(raw[g][p]) /\ raw[g][p].content.tag # "list") =>
                   ~\E i \in 1..Len(out[g]) :
                       prov[g][i] = p /\ out[g][i].type # "[DONE]"
        /\ (\E p \in 1..Len(raw[g]) : Mismatch(raw[g][p])) =>
               (pc[g] \in {"done", "crashed"} =>
                   (HasDone(out[g]) /\ AssistantCount(histories[sess[g]]) = 1))

\* C20: no token event carries the empty string and the accumulator holds
\* no empty string.
C20_NoEmptyToken ==
    \A g \in Gens :
        /\ \A i \in 1..Len(out[g]) : out[g][i].type = "token" => out[g][i].token # <<>>
        /\ \A i \in 1..Len(assistant_tokens[g]) : assistant_tokens[g][i] # <<>>

\* --------------------------------------------------- concurrent requests
\* C23: while a streaming turn is between its user append and its own
\* assistant append, the last entry of its session's history is its own user
\* message (no other turn has appended), and the list its agent call was
\* handed ends with its own user message.
C23_SerializedPerSession ==
    \A g \in Gens :
        /\ pc[g] \in {"accepted", "await", "yield"} =>
               Last(histories[sess[g]]) = [role |-> "user", content |-> message[g]]
        /\ (pc[g] \in {"await", "yield", "appended", "yield_done", "done"}
            /\ turnOf[g] # 0) =>
               Last(agentLog[turnOf[g]].messages) = [role |-> "user", content |-> message[g]]

\* A step changes the history of session s only by appending one entry, and
\* only as a step of a request handler that serves s.
OwnSessionOnly ==
    \A s \in Sessions :
        histories'[s] # histories[s] =>
            /\ \E e \in {[role |-> r, content |-> c] :
                              r \in {"user", "assistant"},
                              c \in {<<>>, <<"x">>, <<"o", "k">>, <<"x", "x">>} \cup
                                    UNION {UserMessages(n) : n \in 1..9}} :
                   histories'[s] = Append(histories[s], e)
            /\ \E g \in Gens :
                   /\ sess'[g] = s
                   /\ pc'[g] # pc[g]
                   /\ pc[g] \in {"accepted", "invoking"} => sess[g] = s

\* C24: under any interleaving of the requests of two handlers, every change
\* of a session's history is one append made by a request on that session
\* (no step of a request on another session appends to it, removes from it
\* or reorders it), and a history starts with the user entry of the first
\* request on its session: nothing precedes it.
C24_SessionsIndependent ==
    /\ [](\A s \in Sessions :
             histories[s] # <<>> =>
                 /\ Head(histories[s]).role = "user"
                 /\ \A s2 \in Sessions \ {s} :
                        \A i \in 1..Len(histories[s2]) :
                            histories[s2][i].role = "user" =>
                                histories[s2][i] # Head(histories[s]))
    /\ [][OwnSessionOnly]_histories

\* Witness of C24: a streaming turn on s1 was cancelled while a turn on s2
\* is under way, and each history holds its own session's user entry only.
C24_Witness ==
    /\ sess[1] = "s1" /\ sess[2] = "s2"
    /\ pc[1] = "cancelled"
    /\ pc[2] = "yield"
    /\ Len(histories["s1"]) = 1
    /\ Len(histories["s2"]) = 1
    /\ histories["s1"][1] # histories["s2"][1]

\* ------------------------------------------- the non-streaming endpoint
\* C29: chat() appends the user message before it invokes the agent (the
\* list handed to the agent is the history, ending with that message); when
\* the agent returns, the history is that list followed by one assistant
\* entry whose content is the returned response; when the agent raises, the
\* history is still that list, ending with the user message.
C29_ChatAppends ==
    \A g \in Gens :
        /\ pc[g] \in {"invoking", "returned", "raised"} =>
               /\ turnOf[g] # 0
               /\ agentLog[turnOf[g]].endpoint = "chat"
               /\ agentLog[turnOf[g]].messages = agent_messages[g]
               /\ Len(agent_messages[g]) >= 1
               /\ Last(agent_messages[g]) = [role |-> "user", content |-> message[g]]
        /\ pc[g] = "invoking" => histories[sess[g]] = agent_messages[g]
        /\ pc[g] = "returned" =>
               histories[sess[g]] =
                   Append(agent_messages[g],
                          [role |-> "assistant", content |-> response[g]])
        /\ pc[g] = "raised" =>
               /\ histories[sess[g]] = agent_messages[g]
               /\ response[g] = <<>>

\* Witness of C29: a non-streaming turn has returned a non-empty response on
\* a session whose earlier non-streaming turn failed.
C29_Witness ==
    /\ pc[1] = "returned"
    /\ response[1] = <<"o", "k">>
    /\ Len(agentLog) = 2
    /\ agentLog[1].endpoint = "chat"
    /\ agentLog[1].status = "failed"
    /\ agentLog[1].sid = sess[1]
    /\ Len(histories[sess[1]]) = 3

\* ------------------------------------------------- the shape of a history
\* The agent calls whose input ends with the user message m.
LogOf(m) ==
    {i \in 1..Len(agentLog) : Last(agentLog[i].messages).content = m}

\* The turn of user message m has ended without its assistant entry: its
\* agent call was cancelled or failed, or the turn was cancelled before the
\* agent was called.
Aborted(m) ==
    IF LogOf(m) # {}
    THEN \E i \in LogOf(m) : agentLog[i].status \in {"cancelled", "failed", "crashed"}
    ELSE \A g \in Gens : message[g] = m => pc[g] = "cancelled"

HistoryShape(h) ==
    /\ \A i \in 1..Len(h) :
           h[i].role = "assistant" => (i > 1 /\ h[i - 1].role = "user")
    /\ AssistantCount(h) <= Len(h) - AssistantCount(h)
    /\ \A i \in 1..(Len(h) - 1) :
           h[i].role = "user" => (h[i + 1].role = "user" <=> Aborted(h[i].content))

\* C30: with turns run one at a time, every step leaves the entries a
\* history already has in place (it only appends), every assistant entry
\* directly follows a user entry, there are never more assistant entries
\* than user entries, and a user entry is directly followed by another user
\* entry exactly when its turn was cancelled or failed.
C30_HistoryShape ==
    /\ [](\A s \in Sessions : HistoryShape(histories[s]))
    /\ [][\A s \in Sessions : IsPrefix(histories[s], histories'[s])]_histories

\* Witness of C30: a session's history holds the user entry of a cancelled
\* streaming turn, then the user entry and the assistant entry of the next.
C30_Witness ==
    \E s \in Sessions :
        /\ Len(histories[s]) = 3
        /\ histories[s][1].role = "user"
        /\ histories[s][2].role = "user"
        /\ histories[s][3].role = "assistant"
        /\ \E i \in 1..Len(agentLog) : agentLog[i].status = "cancelled"

\* =========================================================== the query gate
\* query_sensor_data of backend/tools/timescale.py, and the store connection
\* it uses (backend/timescaledb.py).
_MAX_ROWS == 500

LOWER == <<"a", "b", "c", "d", "e", "f", "g", "h", "i", "j", "k", "l", "m", "n", "o", "p", "q", "r", "s", "t", "u", "v", "w", "x", "y", "z">>
UPPER == <<"A", "B", "C", "D", "E", "F", "G", "H", "I", "J", "K", "L", "M", "N", "O", "P", "Q", "R", "S", "T", "U", "V", "W", "X", "Y", "Z">>
\* str.strip() with no argument removes these (of the characters modelled).
WHITESPACE == {" ", "\t", "\n", "\r", "\f"}

UpperChar(c) ==
    IF \E i \in 1..Len(LOWER) : LOWER[i] = c
    THEN UPPER[CHOOSE i \in 1..Len(LOWER) : LOWER[i] = c]
    ELSE c

\* str.upper()
Upper(s) == [i \in 1..Len(s) |-> UpperChar(s[i])]

RECURSIVE LStrip(_)
LStrip(s) == IF s # <<>> /\ Head(s) \in WHITESPACE THEN LStrip(Tail(s)) ELSE s

RECURSIVE RStrip(_)
RStrip(s) ==
    IF s # <<>> /\ s[Len(s)] \in WHITESPACE THEN RStrip(SubSeq(s, 1, Len(s) - 1)) ELSE s

\* str.strip()
Strip(s) == RStrip(LStrip(s))

KW_SELECT == <<"S", "E", "L", "E", "C", "T">>
KW_WITH == <<"W", "I", "T", "H">>
KW_INSERT == <<"I", "N", "S", "E", "R", "T">>
KW_UPDATE == <<"U", "P", "D", "A", "T", "E">>
KW_DELETE == <<"D", "E", "L", "E", "T", "E">>
KW_DROP == <<"D", "R", "O", "P">>

ONLY_SELECT == <<"O", "n", "l", "y", " ", "S", "E", "L", "E", "C", "T", " ", "q", "u", "e", "r", "i", "e", "s", " ", "a", "r", "e", " ", "a", "l", "l", "o", "w", "e", "d", ".">>

\* Mutant of GateRejects: a deny-list of statement types that misses DROP.
GateRejectsDenyList(sql) ==
    LET sql_stripped == Upper(Strip(sql)) IN
    \/ StartsWith(sql_stripped, KW_INSERT)
    \/ StartsWith(sql_stripped, KW_UPDATE)
    \/ StartsWith(sql_stripped, KW_DELETE)

\* timescale.py:134-135
GateRejects(sql) ==
    LET sql_stripped == Upper(Strip(sql)) IN
    ~StartsWith(sql_stripped, KW_SELECT) /\ ~StartsWith(sql_stripped, KW_WITH)

\* f"SELECT * FROM ({sql}) _q LIMIT {_MAX_ROWS}"
Wrap(sql) ==
    [head |-> <<"S", "E", "L", "E", "C", "T", " ", "*", " ", "F", "R", "O", "M", " ", "(">>, inner |-> sql,
     tail |-> <<")", " ", "_", "q", " ", "L", "I", "M", "I", "T", " ">>, limit |-> _MAX_ROWS]

Min(a, b) == IF a <= b THEN a ELSE b

DIGITS == <<"0", "1", "2", "3", "4", "5", "6", "7", "8", "9">>

RECURSIVE Decimal(_)
\* str(n) of a natural number, as the f-string formats _MAX_ROWS.
Decimal(n) ==
    IF n < 10 THEN <<DIGITS[n + 1]>>
    ELSE Decimal(n \div 10) \o <<DIGITS[(n % 10) + 1]>>

\* The text cur.execute receives: the f-string is a concatenation.
WrapText(sql) == Wrap(sql).head \o Wrap(sql).inner \o Wrap(sql).tail \o Decimal(Wrap(sql).limit)

\* ---- the store's reading of the text of one cur.execute (psycopg2 sends the
\* whole text as one simple query: "--" starts a comment that runs to the end
\* of the line, ";" separates statements, all of them are run and the cursor
\* holds the result of the last one).
RECURSIVE Uncomment(_, _)
Uncomment(t, incomment) ==
    IF t = <<>> THEN <<>>
    ELSE IF incomment
    THEN (IF Head(t) = "\n" THEN <<"\n">> \o Uncomment(Tail(t), FALSE)
          ELSE Uncomment(Tail(t), TRUE))
    ELSE IF StartsWith(t, <<"-", "-">>) THEN Uncomment(Tail(Tail(t)), TRUE)
    ELSE <<Head(t)>> \o Uncomment(Tail(t), FALSE)

RECURSIVE SplitStatements(_, _)
SplitStatements(t, cur) ==
    IF t = <<>> THEN <<cur>>
    ELSE IF Head(t) = ";" THEN <<cur>> \o SplitStatements(Tail(t), <<>>)
    ELSE SplitStatements(Tail(t), Append(cur, Head(t)))

\* The statements of a text, blank ones dropped, each stripped.
Statements(text) ==
    LET parts == SelectSeq(SplitStatements(Uncomment(text, FALSE), <<>>),
                           LAMBDA st : Strip(st) # <<>>)
    IN [i \in 1..Len(parts) |-> Strip(parts[i])]

RECURSIVE Depth(_, _)
\* The parenthesis depth at the end of s, -1 once a ")" closes nothing.
Depth(s, d) ==
    IF d < 0 THEN -1
    ELSE IF s = <<>> THEN d
    ELSE Depth(Tail(s), IF Head(s) = "(" THEN d + 1
                        ELSE IF Head(s) = ")" THEN d - 1 ELSE d)

IsNumber(s) == s # <<>> /\ \A i \in 1..Len(s) : \E d \in 1..10 : DIGITS[d] = s[i]

RECURSIVE ParseDecimal(_)
ParseDecimal(s) ==
    IF s = <<>> THEN 0
    ELSE 10 * ParseDecimal(SubSeq(s, 1, Len(s) - 1))
         + (CHOOSE d \in 0..9 : DIGITS[d + 1] = s[Len(s)])

KW_LIMIT == <<"L", "I", "M", "I", "T", " ">>

\* Where the trailing LIMIT <number> of a statement starts, outside any
\* parenthesis (at most one position).
LimitAt(st) ==
    {k \in 1..Len(st) :
        /\ k + Len(KW_LIMIT) <= Len(st)
        /\ SubSeq(Upper(st), k, k + Len(KW_LIMIT) - 1) = KW_LIMIT
        /\ IsNumber(SubSeq(st, k + Len(KW_LIMIT), Len(st)))
        /\ Depth(SubSeq(st, 1, k - 1), 0) = 0}

\* Rows a statement returns when it yields n rows before its trailing LIMIT.
StatementRows(st, n) ==
    IF LimitAt(st) = {} THEN n
    ELSE Min(n, ParseDecimal(SubSeq(st, (CHOOSE k \in LimitAt(st) : TRUE) + Len(KW_LIMIT),
                                    Len(st))))

\* cur.execute(text) then cur.fetchall(): a syntax error when a statement's
\* parentheses do not balance, else the rows of the last statement, which
\* yields n rows before its trailing LIMIT.
StoreExecute(text, n) ==
    LET sts == Statements(text) IN
    IF sts = <<>> \/ \E i \in 1..Len(sts) : Depth(sts[i], 0) # 0
    THEN [ok |-> FALSE, rows |-> 0]
    ELSE [ok |-> TRUE, rows |-> StatementRows(sts[Len(sts)], n)]

\* The inputs of the gate: leading whitespace, a first word, a rest.
QueryLeads == {<<>>, <<" ">>, <<"\n", "\t">>}
QueryWords ==
    {<<"s", "e", "l", "e", "c", "t">>,
     <<"S", "E", "L", "E", "C", "T">>,
     <<"S", "e", "L", "e", "C", "t">>,
     <<"w", "i", "t", "h">>,
     <<"W", "i", "T", "H">>,
     <<"i", "n", "s", "e", "r", "t">>,
     <<"I", "N", "S", "E", "R", "T">>,
     <<"U", "p", "d", "a", "t", "e">>,
     <<"d", "e", "l", "e", "t", "e">>,
     <<"D", "R", "O", "P">>,
     <<"d", "r", "o", "p">>,
     <<"s", "e", "l", "e", "c">>,
     <<"w", "i", "t">>,
     <<"e", "x", "p", "l", "a", "i", "n">>,
     <<>>}
QueryRests ==
    {<<>>,
     <<" ", "1", " ">>,
     \* the inner query asks for its own limit
     <<" ", "1", " ", "L", "I", "M", "I", "T", " ", "5", "0", "1">>,
     \* the text closes the wrapper's parenthesis, starts a second statement
     \* and comments out the wrapper's tail
     <<" ", "1", ")", " ", "_", "x", ";", " ", "S", "E", "L", "E", "C", "T", " ", "2", " ", "-", "-">>}
QueryInputs == {l \o w \o r : l \in QueryLeads, w \in QueryWords, r \in QueryRests}
\* Rows the inner query matches in the store.
QueryMatches == {0, 1, _MAX_ROWS, _MAX_ROWS + 1}

VARIABLES
    open_conns,   \* store connections open (acquired and not closed)
    q_pc,         \* where the call of query_sensor_data stands
    q_sql,        \* its argument
    q_result,     \* the value it returned
    q_raised,     \* an exception left the tool
    q_acquired,   \* connections this call acquired
    q_sent,       \* statements this call executed against the store
    q_rows,       \* len(rows): the rows of the returned "rows" list
    q_matched     \* rows the executed statement yields before its trailing LIMIT

\* Mutant of Close: the finally clause is missing.
CloseLeak(n) == n

\* finally: conn.close() (timescale.py:95-96, 153-154; plots.py:78-79, 140-141).
Close(n) == n - 1

gateVars == <<q_pc, q_sql, q_result, q_raised, q_acquired, q_sent, q_rows, q_matched>>

NoResult == [kind |-> "none", error |-> <<>>, count |-> 0]
\* json.dumps({"error": ...})
ErrorResult(msg) == [kind |-> "error", error |-> msg, count |-> 0]
\* json.dumps({"columns": ..., "rows": ..., "count": len(rows)})
RowsResult(n) == [kind |-> "rows", error |-> <<>>, count |-> n]
DB_ERROR == <<"d", "b", " ", "e", "r", "r", "o", "r">>
\* timescale.py:155-156: except Exception as e: return json.dumps({"error": str(e)})
QueryExcept(e) == [raised |-> FALSE, result |-> ErrorResult(e)]

InitGate ==
    /\ q_pc = "idle"
    /\ q_sql = <<>>
    /\ q_result = NoResult
    /\ q_raised = FALSE
    /\ q_acquired = 0
    /\ q_sent = <<>>
    /\ q_rows = 0
    /\ q_matched = 0

\* The agent runtime calls the tool.
QueryCall(sql) ==
    /\ q_pc \in {"idle", "returned"}
    /\ q_pc' = "gate"
    /\ q_sql' = sql
    /\ q_result' = NoResult
    /\ q_raised' = FALSE
    /\ q_acquired' = 0
    /\ q_sent' = <<>>
    /\ q_rows' = 0
    /\ q_matched' = 0
    /\ UNCHANGED open_conns

\* timescale.py:134-136
QueryGate ==
    /\ q_pc = "gate"
    /\ IF GateRejects(q_sql)
       THEN /\ q_result' = ErrorResult(ONLY_SELECT)
            /\ q_pc' = "returned"
       ELSE /\ q_pc' = "connect"
            /\ UNCHANGED q_result
    /\ UNCHANGED <<q_sql, q_raised, q_acquired, q_sent, q_rows, q_matched, open_conns>>

\* timescale.py:139: get_connection() returns a connection, or raises and
\* the outer except returns the error.
QueryConnect(ok) ==
    /\ q_pc = "connect"
    /\ IF ok
       THEN /\ open_conns' = open_conns + 1
            /\ q_acquired' = q_acquired + 1
            /\ q_pc' = "execute"
            /\ UNCHANGED <<q_result, q_raised>>
       ELSE /\ q_result' = QueryExcept(DB_ERROR).result
            /\ q_raised' = QueryExcept(DB_ERROR).raised
            /\ q_pc' = "returned"
            /\ UNCHANGED <<open_conns, q_acquired>>
    /\ UNCHANGED <<q_sql, q_sent, q_rows, q_matched>>

\* timescale.py:141-156: the wrapped text is executed; on success the rows
\* of the cursor are fetched, converted and serialized with count =
\* len(rows); on an error (ok is FALSE: the store fails; or the text does not
\* parse) the finally clause closes the connection and the except returns
\* the error.
QueryExecute(ok, n) ==
    /\ q_pc = "execute"
    /\ q_sent' = Append(q_sent, Wrap(q_sql))
    /\ LET res == StoreExecute(WrapText(q_sql), n) IN
       IF ok /\ res.ok
       THEN /\ q_rows' = res.rows
            /\ q_matched' = n
            /\ q_result' = RowsResult(res.rows)
            /\ UNCHANGED q_raised
       ELSE /\ q_result' = QueryExcept(DB_ERROR).result
            /\ q_raised' = QueryExcept(DB_ERROR).raised
            /\ UNCHANGED <<q_rows, q_matched>>
    /\ open_conns' = Close(open_conns)
    /\ q_pc' = "returned"
    /\ UNCHANGED <<q_sql, q_acquired>>

\* --------------------------------------------------------- gate: claims
\* Letter a is letter b (an upper-case letter) in either case.
SameLetter(a, b) == a = b \/ \E i \in 1..Len(UPPER) : UPPER[i] = b /\ LOWER[i] = a

\* After its leading whitespace, s begins with word w, in any mix of cases.
BeginsWithWord(s, w) ==
    \E k \in 0..Len(s) :
        /\ \A i \in 1..k : s[i] \in WHITESPACE
        /\ Len(s) >= k + Len(w)
        /\ s[k + 1] \notin WHITESPACE
        /\ \A i \in 1..Len(w) : SameLetter(s[k + i], w[i])

\* C10: for a query string that, whitespace and case aside, does not begin
\* with SELECT or WITH (so for every string that begins with INSERT, UPDATE,
\* DELETE or DROP), query_sensor_data returns the rejection, raises nothing,
\* acquires no connection and executes nothing against the store.
C10_GateRejects ==
    /\ (q_pc # "idle" /\ ~BeginsWithWord(q_sql, <<"S", "E", "L", "E", "C", "T">>)
        /\ ~BeginsWithWord(q_sql, <<"W", "I", "T", "H">>)) =>
           /\ q_pc \in {"gate", "returned"}
           /\ q_acquired = 0
           /\ q_sent = <<>>
           /\ open_conns = 0
           /\ ~q_raised
           /\ q_pc = "returned" =>
                  q_result = [kind |-> "error", count |-> 0,
                              error |-> <<"O", "n", "l", "y", " ", "S", "E", "L", "E", "C", "T", " ", "q", "u", "e", "r", "i", "e", "s", " ", "a", "r", "e", " ", "a", "l", "l", "o", "w", "e", "d", ".">>]
    /\ (q_pc = "returned"
        /\ \E w \in {<<"I", "N", "S", "E", "R", "T">>, <<"U", "P", "D", "A", "T", "E">>,
                     <<"D", "E", "L", "E", "T", "E">>, <<"D", "R", "O", "P">>} :
               BeginsWithWord(q_sql, w)) =>
           /\ q_result.kind = "error"
           /\ q_result.error = <<"O", "n", "l", "y", " ", "S", "E", "L", "E", "C", "T", " ", "q", "u", "e", "r", "i", "e", "s", " ", "a", "r", "e", " ", "a", "l", "l", "o", "w", "e", "d", ".">>
           /\ q_acquired = 0
           /\ q_sent = <<>>

\* Witness of C10: a lower-case drop after leading whitespace was rejected.
C10_Witness ==
    /\ q_pc = "returned"
    /\ q_sql = <<"\n", "\t", "d", "r", "o", "p", " ", "1", " ">>
    /\ q_result.kind = "error"
    /\ q_acquired = 0

\* C12: an accepted query returns at most 500 rows, count is the number of
\* rows returned, and a statement that yields more than 500 rows returns
\* exactly 500 with count 500.
C12_RowCap ==
    (q_pc = "returned" /\ q_result.kind = "rows") =>
        /\ q_rows <= 500
        /\ q_result.count = q_rows
        /\ q_matched > 500 => (q_rows = 500 /\ q_result.count = 500)

\* ============================================================ chart tools
\* plot_timeseries and plot_barchart of backend/tools/plots.py, the plots
\* directory they write and the static mount of backend/main.py that serves it.
_MAX_PLOT_AGE_S == 3600
\* Calls of a chart tool that may be in progress (the agent runtime runs a
\* synchronous tool on a worker thread).
Workers == {1, 2}
\* Advances of the clock, in seconds.
ClockSteps == {2, 3599}
\* Advances of the clock in one run.
MaxTicks == 2

BACKEND_PUBLIC_URL == <<"h", "t", "t", "p", ":", "/", "/", "l", "o", "c", "a", "l", "h", "o", "s", "t", ":", "8", "0", "0", "0">>
PNG_EXT == <<".", "p", "n", "g">>
NO_DATA == <<"Q", "u", "e", "r", "y", " ", "r", "e", "t", "u", "r", "n", "e", "d", " ", "n", "o", " ", "d", "a", "t", "a", ".">>
PLOT_ERROR == <<"P", "l", "o", "t", " ", "e", "r", "r", "o", "r", ":", " ">>
RENDER_ERROR == <<"r", "e", "n", "d", "e", "r">>
FILE_NOT_FOUND == <<"N", "o", " ", "s", "u", "c", "h", " ", "f", "i", "l", "e">>
\* uuid.uuid4().hex values.
Ids == {<<"a", "1">>, <<"b", "2">>, <<"c", "3">>}
PlotTools == {"plot_timeseries", "plot_barchart"}
PlotTitles == {<<"t">>}
PlotQueries == {<<"S", "E", "L", "E", "C", "T", " ", "1">>, <<"D", "R", "O", "P", " ", "t">>}
\* Rows the query of a chart tool returns.
PlotRowCounts == {0, 2}

EndsWith(s, e) == Len(s) >= Len(e) /\ SubSeq(s, Len(s) - Len(e) + 1, Len(s)) = e

VARIABLES
    files,        \* the plots directory: {name, mtime, payload}
    now,          \* time.time()
    ticks,        \* advances of the clock so far
    used_ids,     \* uuid4 values drawn so far (a uuid4 is not drawn twice)
    artifacts,    \* every figure _save_fig has written: {id, payload, at (its mtime)}
    p_pc,         \* where each chart tool call stands
    p_tool,       \* the tool called
    p_sql,        \* its sql argument
    p_title,      \* its title argument
    p_rows,       \* rows fetched
    p_now,        \* _purge_old_plots: now
    p_listing,    \* _purge_old_plots: files of the glob still to examine
    p_uid,        \* _save_fig: the uuid4 hex of this call
    p_result,     \* the value the tool returned
    p_raised,     \* an exception left the tool
    p_acquired,   \* connections this call acquired
    p_sent        \* statements this call executed against the store

plotVars ==
    <<files, now, ticks, used_ids, artifacts, p_pc, p_tool, p_sql, p_title, p_rows,
      p_now, p_listing, p_uid, p_result, p_raised, p_acquired, p_sent>>

InitPlots ==
    /\ files = {}
    /\ now = 0
    /\ ticks = 0
    /\ used_ids = {}
    /\ artifacts = {}
    /\ p_pc = [w \in Workers |-> "idle"]
    /\ p_tool = [w \in Workers |-> "plot_timeseries"]
    /\ p_sql = [w \in Workers |-> <<>>]
    /\ p_title = [w \in Workers |-> <<>>]
    /\ p_rows = [w \in Workers |-> 0]
    /\ p_now = [w \in Workers |-> 0]
    /\ p_listing = [w \in Workers |-> {}]
    /\ p_uid = [w \in Workers |-> <<>>]
    /\ p_result = [w \in Workers |-> <<>>]
    /\ p_raised = [w \in Workers |-> FALSE]
    /\ p_acquired = [w \in Workers |-> 0]
    /\ p_sent = [w \in Workers |-> <<>>]

\* The figure a call renders, as far as its content is told apart.
Figure(w) == [tool |-> p_tool[w], title |-> p_title[w], rows |-> p_rows[w]]

\* plots.py:46: filename = f"{uuid.uuid4().hex}.png"
PlotFilename(uid) == uid \o PNG_EXT

\* plots.py:49: f"{_BACKEND_PUBLIC_URL}/plots/{filename}"
PlotUrl(filename) == BACKEND_PUBLIC_URL \o PLOTS_MOUNT \o filename

\* plots.py:113 and 162: f"![{title}]({url})"
PlotReturn(title, uid) ==
    <<"!", "[">> \o title \o <<"]", "(">> \o PlotUrl(PlotFilename(uid)) \o <<")">>

\* plots.py:116 and 165: f"Plot error: {e}"
PlotError(e) == PLOT_ERROR \o e

\* plots.py:115-116 and 164-165: except Exception as e: return f"Plot error: {e}"
PlotExcept(e) == [raised |-> FALSE, result |-> PlotError(e)]

\* _PLOTS_DIR.glob("*.png")
GlobPng(fs) == {f.name : f \in {x \in fs : EndsWith(x.name, PNG_EXT)}}

\* Mutant of Expired: the sweep deletes a file one second before it is 3600s old.
ExpiredEarly(t, f) == t - f.mtime >= _MAX_PLOT_AGE_S - 1

\* plots.py:39: now - f.stat().st_mtime > _MAX_PLOT_AGE_S
Expired(t, f) == t - f.mtime > _MAX_PLOT_AGE_S

\* GET of a path under the StaticFiles mount at /plots (main.py:32-34).
NotFound == [found |-> FALSE, payload |-> [tool |-> "", title |-> <<>>, rows |-> 0]]
StaticFetch(fs, path) ==
    IF StartsWith(path, PLOTS_MOUNT)
       /\ \E f \in fs : f.name = SubSeq(path, Len(PLOTS_MOUNT) + 1, Len(path))
    THEN [found |-> TRUE,
          payload |-> (CHOOSE f \in fs :
                          f.name = SubSeq(path, Len(PLOTS_MOUNT) + 1, Len(path))).payload]
    ELSE NotFound

\* The agent runtime calls a chart tool.
PlotCall(w, tool, sql, title) ==
    /\ p_pc[w] \in {"idle", "returned"}
    /\ p_pc' = [p_pc EXCEPT ![w] = "connect"]
    /\ p_tool' = [p_tool EXCEPT ![w] = tool]
    /\ p_sql' = [p_sql EXCEPT ![w] = sql]
    /\ p_title' = [p_title EXCEPT ![w] = title]
    /\ p_rows' = [p_rows EXCEPT ![w] = 0]
    /\ p_now' = [p_now EXCEPT ![w] = 0]
    /\ p_listing' = [p_listing EXCEPT ![w] = {}]
    /\ p_uid' = [p_uid EXCEPT ![w] = <<>>]
    /\ p_result' = [p_result EXCEPT ![w] = <<>>]
    /\ p_raised' = [p_raised EXCEPT ![w] = FALSE]
    /\ p_acquired' = [p_acquired EXCEPT ![w] = 0]
    /\ p_sent' = [p_sent EXCEPT ![w] = <<>>]
    /\ UNCHANGED <<files, now, ticks, used_ids, artifacts, open_conns>>

\* plots.py:72 and 135: get_connection() returns a connection, or raises and
\* the except of the tool returns "Plot error: ...".
PlotConnect(w, ok) ==
    /\ p_pc[w] = "connect"
    /\ IF ok
       THEN /\ open_conns' = open_conns + 1
            /\ p_acquired' = [p_acquired EXCEPT ![w] = @ + 1]
            /\ p_pc' = [p_pc EXCEPT ![w] = "execute"]
            /\ UNCHANGED <<p_result, p_raised>>
       ELSE /\ p_result' = [p_result EXCEPT ![w] = PlotExcept(DB_ERROR).result]
            /\ p_raised' = [p_raised EXCEPT ![w] = PlotExcept(DB_ERROR).raised]
            /\ p_pc' = [p_pc EXCEPT ![w] = "returned"]
            /\ UNCHANGED <<open_conns, p_acquired>>
    /\ UNCHANGED <<files, now, ticks, used_ids, artifacts, p_tool, p_sql, p_title,
                   p_rows, p_now, p_listing, p_uid, p_sent>>

\* plots.py:73-82 and 136-144: cur.execute(sql) with the caller's sql as it
\* is, fetchall, the finally clause closes the connection; no rows returns
\* the plain message, an error returns "Plot error: ...".
PlotExecute(w, ok, n) ==
    /\ p_pc[w] = "execute"
    /\ p_sent' = [p_sent EXCEPT ![w] = Append(@, p_sql[w])]
    /\ open_conns' = Close(open_conns)
    /\ IF ~ok
       THEN /\ p_result' = [p_result EXCEPT ![w] = PlotExcept(DB_ERROR).result]
            /\ p_raised' = [p_raised EXCEPT ![w] = PlotExcept(DB_ERROR).raised]
            /\ p_pc' = [p_pc EXCEPT ![w] = "returned"]
            /\ UNCHANGED p_rows
       ELSE IF n = 0
       THEN /\ p_result' = [p_result EXCEPT ![w] = NO_DATA]
            /\ p_pc' = [p_pc EXCEPT ![w] = "returned"]
            /\ UNCHANGED <<p_rows, p_raised>>
       ELSE /\ p_rows' = [p_rows EXCEPT ![w] = n]
            /\ p_pc' = [p_pc EXCEPT ![w] = "render"]
            /\ UNCHANGED <<p_result, p_raised>>
    /\ UNCHANGED <<files, now, ticks, used_ids, artifacts, p_tool, p_sql, p_title,
                   p_now, p_listing, p_uid, p_acquired>>

\* plots.py:84-110 and 146-159: the figure is built, or building it raises
\* (a row too short, a value float() refuses); then _save_fig starts:
\* _purge_old_plots reads the clock and lists the png files.
PlotRender(w, ok) ==
    /\ p_pc[w] = "render"
    /\ IF ok
       THEN /\ p_now' = [p_now EXCEPT ![w] = now]
            /\ p_listing' = [p_listing EXCEPT ![w] = GlobPng(files)]
            /\ p_pc' = [p_pc EXCEPT ![w] = "purge"]
            /\ UNCHANGED <<p_result, p_raised>>
       ELSE /\ p_result' = [p_result EXCEPT ![w] = PlotExcept(RENDER_ERROR).result]
            /\ p_raised' = [p_raised EXCEPT ![w] = PlotExcept(RENDER_ERROR).raised]
            /\ p_pc' = [p_pc EXCEPT ![w] = "returned"]
            /\ UNCHANGED <<p_now, p_listing>>
    /\ UNCHANGED <<files, now, ticks, used_ids, artifacts, open_conns, p_tool, p_sql,
                   p_title, p_rows, p_uid, p_acquired, p_sent>>

\* plots.py:38-40, one file of the listing: f.stat() raises when the file is
\* gone (the exception ends the tool in its except); an expired file is
\* unlinked (missing_ok).
PurgeStep(w, name) ==
    /\ p_pc[w] = "purge"
    /\ name \in p_listing[w]
    /\ IF ~\E f \in files : f.name = name
       THEN /\ p_result' = [p_result EXCEPT ![w] = PlotExcept(FILE_NOT_FOUND).result]
            /\ p_raised' = [p_raised EXCEPT ![w] = PlotExcept(FILE_NOT_FOUND).raised]
            /\ p_pc' = [p_pc EXCEPT ![w] = "returned"]
            /\ UNCHANGED <<files, p_listing>>
       ELSE /\ files' = {f \in files : ~(f.name = name /\ Expired(p_now[w], f))}
            /\ p_listing' = [p_listing EXCEPT ![w] = @ \ {name}]
            /\ UNCHANGED <<p_pc, p_result, p_raised>>
    /\ UNCHANGED <<now, ticks, used_ids, artifacts, open_conns, p_tool, p_sql, p_title,
                   p_rows, p_now, p_uid, p_acquired, p_sent>>

\* plots.py:46-49 and 113/162: the figure is written under a fresh uuid4
\* name and the tool returns the markdown image of its URL.
PlotSave(w, uid) ==
    /\ p_pc[w] = "purge"
    /\ p_listing[w] = {}
    /\ uid \notin used_ids
    /\ used_ids' = used_ids \cup {uid}
    /\ p_uid' = [p_uid EXCEPT ![w] = uid]
    /\ files' = {f \in files : f.name # PlotFilename(uid)} \cup
                {[name |-> PlotFilename(uid), mtime |-> now, payload |-> Figure(w)]}
    /\ artifacts' = artifacts \cup {[id |-> uid, payload |-> Figure(w), at |-> now]}
    /\ p_result' = [p_result EXCEPT ![w] = PlotReturn(p_title[w], uid)]
    /\ p_pc' = [p_pc EXCEPT ![w] = "returned"]
    /\ UNCHANGED <<now, ticks, open_conns, p_tool, p_sql, p_title, p_rows, p_now,
                   p_listing, p_raised, p_acquired, p_sent>>

\* Time passes.
Tick(d) ==
    /\ ticks < MaxTicks
    /\ now' = now + d
    /\ ticks' = ticks + 1
    /\ UNCHANGED <<files, used_ids, artifacts, open_conns, p_pc, p_tool, p_sql,
                   p_title, p_rows, p_now, p_listing, p_uid, p_result, p_raised,
                   p_acquired, p_sent>>

\* ---------------------------------------------------- chart tools: claims
\* C8: a chart tool whose query yields rows and whose rendering succeeds
\* saves the figure and returns PLOT:<id>, <id> being the identifier of the
\* artifact just saved.
C8_ReturnsPlotToken ==
    \A w \in Workers :
        (p_pc[w] = "returned" /\ p_uid[w] # <<>>) =>
            /\ \E a \in artifacts : a.id = p_uid[w]
            /\ p_result[w] = PLOT_PREFIX \o p_uid[w]

\* C9: for an artifact saved under id X and still stored, the path that
\* generate() emits for PLOT:X names the stored object: fetching the path
\* under the static mount returns the saved payload.
C9_PathNamesArtifact ==
    \A a \in artifacts :
        (\E f \in files : f.payload = a.payload /\ Contains(f.name, a.id)) =>
            StaticFetch(files, PlotPath(PlotUid(PLOT_PREFIX \o a.id))) =
                [found |-> TRUE, payload |-> a.payload]

\* GET /plots/<id>.png: loading the artifact saved under id.
Load(id) == StaticFetch(files, PLOTS_MOUNT \o id \o <<".", "p", "n", "g">>)

\* C16: an artifact saved at t0 is retrievable as long as the clock is at
\* most t0 + 3599; once a later save whose sweep read the clock at t0 + 3601
\* or later has returned, it is absent; the sweep of a save is over before
\* the save writes its artifact, and the artifact a save has written is
\* there when the save returns.
C16_Retention ==
    /\ \A a \in artifacts :
           now - a.at <= 3599 => Load(a.id) = [found |-> TRUE, payload |-> a.payload]
    /\ \A w \in Workers :
           /\ (p_pc[w] = "returned" /\ p_uid[w] # <<>>) =>
                  /\ \A a \in artifacts : p_now[w] - a.at >= 3601 => ~Load(a.id).found
                  /\ Load(p_uid[w]).found
                  /\ \E a \in artifacts : a.id = p_uid[w] /\ a.at >= p_now[w]
           /\ p_pc[w] = "purge" =>
                  /\ p_uid[w] = <<>>
                  /\ \A f \in files : f.payload = Figure(w) => f.mtime <= p_now[w]

\* Witness of C16: a save whose sweep read the clock at 3601 has returned;
\* the artifact saved at 0 is gone, the one saved at 3599 and the new one
\* are there.
C16_Witness ==
    /\ p_pc[1] = "returned" /\ p_uid[1] # <<>> /\ p_now[1] = 3601
    /\ \E a \in artifacts : a.at = 0 /\ ~Load(a.id).found
    /\ \E a \in artifacts : a.at = 3599 /\ Load(a.id).found
    /\ Load(p_uid[1]).found

\* C17: loading an artifact older than the 3600s retention window fails with
\* NotFound, whether or not a save has swept the directory since it expired.
C17_ExpiredNotServed ==
    \A a \in artifacts :
        now - a.at > 3600 =>
            Load(a.id) = [found |-> FALSE, payload |-> [tool |-> "", title |-> <<>>, rows |-> 0]]

\* C11: every statement a chart tool or the query tool executes against the
\* store comes from a caller's string that passed the SELECT/WITH prefix gate
\* and is the gate's wrapped, row-limited form of it, never the string as is.
C11_OnlyGatedStatements ==
    /\ \A w \in Workers :
           \A i \in 1..Len(p_sent[w]) :
               /\ ~GateRejects(p_sql[w])
               /\ p_sent[w][i] # p_sql[w]
               /\ StartsWith(p_sent[w][i], Wrap(p_sql[w]).head)
    /\ q_sent # <<>> => ~GateRejects(q_sql)

\* ============================================================== ingestion
\* ingest_mdf_to_db of backend/tools/timescale.py and the measurements table
\* of backend/timescaledb.py.
\* C28: a save whose sweep meets a file that another save's sweep has
\* deleted since it was listed does not fail: no call returns the error of
\* the missing file, and the artifact a call has just saved is in the
\* directory while it has not expired.
C28_SweepIgnoresMissing ==
    \A w \in Workers :
        p_pc[w] = "returned" =>
            /\ p_result[w] # <<"P", "l", "o", "t", " ", "e", "r", "r", "o", "r", ":", " ",
                               "N", "o", " ", "s", "u", "c", "h", " ", "f", "i", "l", "e">>
            /\ p_uid[w] # <<>> =>
                   \A a \in artifacts :
                       (a.id = p_uid[w] /\ now - a.at <= _MAX_PLOT_AGE_S) =>
                           \E f \in files : f.name = p_uid[w] \o <<".", "p", "n", "g">>

\* Calls of the tool in one run.
MaxIngests == 2

FILE_NOT_FOUND_PREFIX == <<"F", "i", "l", "e", " ", "n", "o", "t", " ", "f", "o", "u", "n", "d", ":", " ">>
IMPORT_ERROR == <<"N", "o", " ", "m", "o", "d", "u", "l", "e">>
MDF_ERROR == <<"n", "o", "t", " ", "M", "D", "F">>
DECODE_ERROR == <<"d", "e", "c", "o", "d", "e">>
INSERT_ERROR == <<"i", "n", "s", "e", "r", "t">>
TXN_ABORTED == <<"t", "x", "n", " ", "a", "b", "o", "r", "t", "e", "d">>

\* A sample of a channel: its timestamp (seconds from the start of the file)
\* and its raw value, finite or not.
Sample(ts, finite, v) == [ts |-> ts, finite |-> finite, v |-> v]
Channel(name, unit, samples) == [name |-> name, unit |-> unit, samples |-> samples]

RUN_PATH == <<"d", "/", "r", ".", "m", "f", "4">>
MISSING_PATH == <<"d", "/", "n", "o">>
\* The files on disk: path -> start_time and channels_db in key order.
DISK ==
    [p \in {RUN_PATH} |->
        [start_time |-> 100,
         channels |-> <<Channel("A", <<"V">>, <<Sample(0, TRUE, 5), Sample(1, FALSE, 0)>>),
                        Channel("E", <<>>, <<>>),
                        Channel("B", <<>>, <<Sample(0, TRUE, 7)>>)>>]]
IngestPaths == {RUN_PATH, MISSING_PATH}

\* Mutant of InsertRows: the commit of line 87 is lost.
InsertRowsNone(tbl, rows) == tbl

\* Mutant of PathExists: the test of line 43 is missing.
PathExistsAlways(p) == TRUE

\* Path(file_path).exists()
PathExists(p) == p \in DOMAIN DISK

RECURSIVE PathName(_)
\* Path(file_path).name: what follows the last "/".
PathName(p) ==
    IF \E i \in 1..Len(p) : p[i] = "/"
    THEN PathName(SubSeq(p, (CHOOSE i \in 1..Len(p) : p[i] = "/") + 1, Len(p)))
    ELSE p

\* float(raw_val), None when it is not finite (timescale.py:68-72).
NULL == [null |-> TRUE, v |-> 0]

\* Mutant of Value: a sample that is not finite is stored as zero.
ValueZero(smp) == [null |-> FALSE, v |-> IF smp.finite THEN smp.v ELSE 0]

Value(smp) == IF smp.finite THEN [null |-> FALSE, v |-> smp.v] ELSE NULL

\* timescale.py:65-73: the (time, file_name, channel, value, unit) tuples.
BuildRows(start_time, file_name, ch) ==
    [i \in 1..Len(ch.samples) |->
        [time |-> start_time + ch.samples[i].ts, file_name |-> file_name,
         channel |-> ch.name, value |-> Value(ch.samples[i]), unit |-> ch.unit]]

\* The unique constraints and unique indexes of measurements in _SCHEMA_SQL:
\* the table has no primary key and no unique index (both indexes are plain).
UNIQUE_CONSTRAINTS == {}

\* Column c of a row.
Col(r, c) ==
    CASE c = "time" -> r.time
      [] c = "file_name" -> r.file_name
      [] c = "channel" -> r.channel
      [] OTHER -> r.unit

\* INSERT ... ON CONFLICT DO NOTHING of one row: the row is skipped when it
\* violates a unique constraint of the table, inserted otherwise.
Conflicts(tbl, r) ==
    \E uc \in UNIQUE_CONSTRAINTS :
        \E i \in 1..Len(tbl) : \A c \in uc : Col(tbl[i], c) = Col(r, c)

RECURSIVE InsertRows(_, _)
InsertRows(tbl, rows) ==
    IF rows = <<>> THEN tbl
    ELSE InsertRows(IF Conflicts(tbl, Head(rows)) THEN tbl ELSE Append(tbl, Head(rows)),
                    Tail(rows))

VARIABLES
    table,        \* measurements: the committed rows, in insertion order
    ingests,      \* calls of ingest_mdf_to_db so far
    i_pc,         \* where the call stands
    i_path,       \* file_path
    i_idx,        \* position in mdf.channels_db.keys()
    i_txn,        \* the connection's transaction: "none", "idle", "aborted"
    i_channels,   \* channels_ingested
    i_total,      \* total_rows
    i_env,        \* per channel visited: would its decode and its insert succeed
    i_result,     \* the value the tool returned
    i_raised,     \* an exception left the tool
    i_acquired    \* connections this call acquired

ingestVars ==
    <<table, ingests, i_pc, i_path, i_idx, i_txn, i_channels, i_total, i_env, i_result,
      i_raised, i_acquired>>

InitIngest ==
    /\ table = <<>>
    /\ ingests = 0
    /\ i_pc = "idle"
    /\ i_path = <<>>
    /\ i_idx = 0
    /\ i_txn = "none"
    /\ i_channels = <<>>
    /\ i_total = 0
    /\ i_env = <<>>
    /\ i_result = [kind |-> "none", error |-> <<>>, file |-> <<>>, channels_ingested |-> 0,
                   total_rows |-> 0, channels |-> <<>>]
    /\ i_raised = FALSE
    /\ i_acquired = 0

\* json.dumps({"error": ...})
IngestError(msg) ==
    [kind |-> "error", error |-> msg, file |-> <<>>, channels_ingested |-> 0,
     total_rows |-> 0, channels |-> <<>>]

\* json.dumps({"file": ..., "channels_ingested": ..., "total_rows": ..., "channels": ...})
IngestSummary(file_name, channels, total) ==
    [kind |-> "summary", error |-> <<>>, file |-> file_name,
     channels_ingested |-> Len(channels), total_rows |-> total, channels |-> channels]

\* Mutant of IngestExcept: the outer handler catches the import error only.
IngestExceptNarrow(e) == [raised |-> e # IMPORT_ERROR, result |-> IngestError(e)]

\* timescale.py:107-108: except Exception as e: return json.dumps({"error": str(e)})
IngestExcept(e) == [raised |-> FALSE, result |-> IngestError(e)]

\* channels_ingested entries: the name, or f"{channel_name} (error: {e})".
Ingested(name) == [name |-> name, error |-> <<>>]
Errored(name, e) == [name |-> name, error |-> e]

\* The agent runtime calls the tool.
IngestCall(path) ==
    /\ i_pc \in {"idle", "returned"}
    /\ ingests < MaxIngests
    /\ ingests' = ingests + 1
    /\ i_pc' = "check"
    /\ i_path' = path
    /\ i_idx' = 0
    /\ i_channels' = <<>>
    /\ i_total' = 0
    /\ i_env' = <<>>
    /\ i_result' = [kind |-> "none", error |-> <<>>, file |-> <<>>, channels_ingested |-> 0,
                    total_rows |-> 0, channels |-> <<>>]
    /\ i_raised' = FALSE
    /\ i_acquired' = 0
    /\ UNCHANGED <<table, i_txn, open_conns>>

\* timescale.py:40-48: the import of asammdf (a failure goes to the outer
\* except), then the path test, which returns the error before any
\* connection is asked for.
IngestCheck(import_ok) ==
    /\ i_pc = "check"
    /\ IF ~import_ok
       THEN /\ i_result' = IngestExcept(IMPORT_ERROR).result
            /\ i_raised' = IngestExcept(IMPORT_ERROR).raised
            /\ i_pc' = "returned"
       ELSE IF ~PathExists(i_path)
       THEN /\ i_result' = IngestError(FILE_NOT_FOUND_PREFIX \o i_path)
            /\ i_pc' = "returned"
            /\ UNCHANGED i_raised
       ELSE /\ i_pc' = "connect"
            /\ UNCHANGED <<i_result, i_raised>>
    /\ UNCHANGED <<table, ingests, i_path, i_idx, i_txn, i_channels, i_total, i_env,
                   i_acquired, open_conns>>

\* timescale.py:50: get_connection() returns a connection, or raises (the
\* try/finally has not been entered) and the outer except returns the error.
IngestConnect(ok) ==
    /\ i_pc = "connect"
    /\ IF ok
       THEN /\ open_conns' = open_conns + 1
            /\ i_acquired' = i_acquired + 1
            /\ i_txn' = "idle"
            /\ i_pc' = "open"
            /\ UNCHANGED <<i_result, i_raised>>
       ELSE /\ i_result' = IngestExcept(DB_ERROR).result
            /\ i_raised' = IngestExcept(DB_ERROR).raised
            /\ i_pc' = "returned"
            /\ UNCHANGED <<open_conns, i_acquired, i_txn>>
    /\ UNCHANGED <<table, ingests, i_path, i_idx, i_channels, i_total, i_env>>

\* timescale.py:52-58: MDF(str(path)) opens the file and the loop over
\* channels_db starts; when the file does not open (no such file, not an MDF
\* file) the finally clause closes the connection and the outer except
\* returns the error.
IngestOpen(ok) ==
    /\ i_pc = "open"
    /\ IF ok /\ i_path \in DOMAIN DISK
       THEN /\ i_pc' = "channel"
            /\ i_idx' = 1
            /\ UNCHANGED <<i_result, i_raised, open_conns, i_txn>>
       ELSE /\ i_result' = IngestExcept(MDF_ERROR).result
            /\ i_raised' = IngestExcept(MDF_ERROR).raised
            /\ open_conns' = Close(open_conns)
            /\ i_txn' = "none"
            /\ i_pc' = "returned"
            /\ UNCHANGED i_idx
    /\ UNCHANGED <<table, ingests, i_path, i_channels, i_total, i_env, i_acquired>>

\* What the store answers to the INSERT of a channel's rows.
InsertOutcomes == {"ok", "client_error", "server_error"}

\* timescale.py:59-93, one channel of the loop. mdf.get decodes the channel
\* (decode_ok) or raises; an empty channel is skipped; the rows are built and
\* sent in batches in one transaction of the shared connection, then
\* committed. ins is what the INSERT would do on a connection of its own: it
\* succeeds, it raises before anything is sent (client_error), or the store
\* rejects it (server_error), which leaves the connection's transaction
\* aborted; nothing rolls it back, so every later statement on the connection
\* raises as well. The except of line 92 records the error and the loop goes on.
IngestChannel(decode_ok, ins) ==
    /\ i_pc = "channel"
    /\ i_idx <= Len(DISK[i_path].channels)
    /\ LET ch == DISK[i_path].channels[i_idx]
           rows == BuildRows(DISK[i_path].start_time, PathName(i_path), ch)
       IN
       /\ i_env' = Append(i_env, [decode |-> decode_ok, insert |-> ins])
       /\ i_idx' = i_idx + 1
       /\ IF ~decode_ok
          THEN /\ i_channels' = Append(i_channels, Errored(ch.name, DECODE_ERROR))
               /\ UNCHANGED <<table, i_txn, i_total>>
          ELSE IF Len(ch.samples) = 0
          THEN UNCHANGED <<table, i_txn, i_total, i_channels>>
          ELSE IF ins = "client_error"
          THEN /\ i_channels' = Append(i_channels, Errored(ch.name, INSERT_ERROR))
               /\ UNCHANGED <<table, i_txn, i_total>>
          ELSE IF i_txn = "aborted"
          THEN /\ i_channels' = Append(i_channels, Errored(ch.name, TXN_ABORTED))
               /\ UNCHANGED <<table, i_txn, i_total>>
          ELSE IF ins = "server_error"
          THEN /\ i_channels' = Append(i_channels, Errored(ch.name, INSERT_ERROR))
               /\ i_txn' = "aborted"
               /\ UNCHANGED <<table, i_total>>
          ELSE /\ table' = InsertRows(table, rows)
               /\ i_channels' = Append(i_channels, Ingested(ch.name))
               /\ i_total' = i_total + Len(rows)
               /\ UNCHANGED i_txn
    /\ UNCHANGED <<ingests, i_pc, i_path, i_result, i_raised, i_acquired, open_conns>>

\* timescale.py:95-106: the loop is over, the finally clause closes the
\* connection and the summary is returned.
IngestReturn ==
    /\ i_pc = "channel"
    /\ i_idx > Len(DISK[i_path].channels)
    /\ open_conns' = Close(open_conns)
    /\ i_txn' = "none"
    /\ i_result' = IngestSummary(PathName(i_path), i_channels, i_total)
    /\ i_pc' = "returned"
    /\ UNCHANGED <<table, ingests, i_path, i_idx, i_channels, i_total, i_env, i_raised,
                   i_acquired>>

\* ------------------------------------------------------------- seed_db.py
\* RUNS with the channels its generators return: the samples are sums and
\* products of finite numbers, clipped to finite ranges, so all are finite.
\* The timestamps are start + i * DT; DT is one unit of time here.
SEED_RUNS ==
    <<[file_name |-> <<"c", ".", "m", "f", "4">>, start |-> 200,
       channels |-> <<Channel("S", <<"k">>, <<Sample(0, TRUE, 0), Sample(1, TRUE, 35)>>),
                      Channel("R", <<"r">>, <<Sample(0, TRUE, 800), Sample(1, TRUE, 2375)>>)>>],
      [file_name |-> <<"h", ".", "m", "f", "4">>, start |-> 300,
       channels |-> <<Channel("S", <<"k">>, <<Sample(0, TRUE, 115)>>)>>]>>

\* seed_db.py:185-189: one tuple per sample for which np.isfinite(v) holds.
RECURSIVE SeedRows(_, _, _)
SeedRows(run, ch, i) ==
    IF i > Len(ch.samples) THEN <<>>
    ELSE (IF ch.samples[i].finite
          THEN <<[time |-> run.start + (i - 1), file_name |-> run.file_name,
                  channel |-> ch.name, value |-> [null |-> FALSE, v |-> ch.samples[i].v],
                  unit |-> ch.unit]>>
          ELSE <<>>)
         \o SeedRows(run, ch, i + 1)

\* seed_db.py:177-179: DELETE FROM measurements WHERE file_name = %s
DeleteFile(tbl, file_name) == SelectSeq(tbl, LAMBDA r : r.file_name # file_name)

\* seed_db.py:191-197: the plain INSERT of each channel's tuples, in order.
RECURSIVE SeedChannels(_, _, _)
SeedChannels(tbl, run, k) ==
    IF k > Len(run.channels) THEN tbl
    ELSE SeedChannels(tbl \o SeedRows(run, run.channels[k], 1), run, k + 1)

VARIABLE seed_idx    \* seed(): the runs of RUNS already written

\* One iteration of `for run in RUNS` (seed_db.py:167-198).
SeedRun ==
    /\ seed_idx < Len(SEED_RUNS)
    /\ seed_idx' = seed_idx + 1
    /\ table' = SeedChannels(DeleteFile(table, SEED_RUNS[seed_idx + 1].file_name),
                             SEED_RUNS[seed_idx + 1], 1)
    /\ UNCHANGED <<ingests, i_pc, i_path, i_idx, i_txn, i_channels, i_total, i_env,
                   i_result, i_raised, i_acquired, open_conns>>

\* The script is run again ("re-run to refresh").
SeedAgain ==
    /\ seed_idx = Len(SEED_RUNS)
    /\ seed_idx' = 0
    /\ UNCHANGED <<ingestVars, open_conns>>

\* An exception inside the with block and outside the try of a channel (the
\* iteration of channels_db, the exit of the MDF context): the loop is left,
\* the finally clause closes the connection, the outer except returns the
\* error. Nothing undoes the commits of the channels already visited.
IngestAbort ==
    /\ i_pc = "channel"
    /\ open_conns' = Close(open_conns)
    /\ i_txn' = "none"
    /\ i_result' = IngestExcept(MDF_ERROR).result
    /\ i_raised' = IngestExcept(MDF_ERROR).raised
    /\ i_pc' = "returned"
    /\ UNCHANGED <<table, ingests, i_path, i_idx, i_channels, i_total, i_env, i_acquired>>

\* ------------------------------------------------------ ingestion: claims
\* Rows of the table that carry the (time, file_name, channel) of row r.
SameKey(tbl, r) ==
    {i \in 1..Len(tbl) :
        tbl[i].time = r.time /\ tbl[i].file_name = r.file_name /\ tbl[i].channel = r.channel}

\* Samples of all channels of the file at path p.
RECURSIVE SampleCount(_)
SampleCount(chs) == IF chs = <<>> THEN 0 ELSE Len(Head(chs).samples) + SampleCount(Tail(chs))

\* C13: ingesting a file again adds nothing: no two rows of the table carry
\* the same (time, file_name, channel), and the rows of a source are never
\* more than the samples of its file.
C13_IngestIdempotent ==
    /\ \A i \in 1..Len(table) : SameKey(table, table[i]) = {i}
    /\ \A p \in DOMAIN DISK :
           Cardinality({i \in 1..Len(table) : table[i].file_name = PathName(p)})
               <= SampleCount(DISK[p].channels)

\* C14: every non-empty channel the loop has visited whose decode and whose
\* insert would succeed on their own is in the table and is reported without
\* an error, whatever happened to the channels before it.
C14_ChannelFailureIsolated ==
    \A k \in 1..Len(i_env) :
        LET ch == DISK[i_path].channels[k] IN
        (Len(ch.samples) > 0 /\ i_env[k].decode /\ i_env[k].insert = "ok") =>
            /\ \E j \in 1..Len(i_channels) : i_channels[j] = [name |-> ch.name, error |-> <<>>]
            /\ \A n \in 1..Len(ch.samples) :
                   \E i \in 1..Len(table) :
                       /\ table[i].channel = ch.name
                       /\ table[i].file_name = PathName(i_path)
                       /\ table[i].time = DISK[i_path].start_time + ch.samples[n].ts

\* C15: called with a path that does not exist, the tool returns an error
\* result, raises nothing, acquires no connection, visits no channel and
\* inserts no row.
C15_MissingFile ==
    (i_pc # "idle" /\ i_path \notin DOMAIN DISK) =>
        /\ i_pc \in {"check", "returned"}
        /\ ~i_raised
        /\ i_acquired = 0
        /\ open_conns = 0
        /\ i_env = <<>> /\ i_channels = <<>> /\ i_total = 0
        /\ i_pc = "returned" => (i_result.kind = "error" /\ i_result.error # <<>>)

\* Witness of C15: after an ingestion that stored rows, a call with the
\* missing path returned "File not found: d/no".
C15_Witness ==
    /\ i_pc = "returned"
    /\ i_path = <<"d", "/", "n", "o">>
    /\ i_result.kind = "error"
    /\ i_result.error = <<"F", "i", "l", "e", " ", "n", "o", "t", " ", "f", "o", "u", "n", "d", ":", " ", "d", "/", "n", "o">>
    /\ Len(table) > 0
    /\ i_acquired = 0

\* The channel of the file at path p that is named name.
ChannelOf(p, name) ==
    CHOOSE ch \in {DISK[p].channels[k] : k \in 1..Len(DISK[p].channels)} : ch.name = name

\* The samples of the channels that channels_ingested lists without an error.
RECURSIVE CommittedRows(_, _)
CommittedRows(p, chs) ==
    IF chs = <<>> THEN 0
    ELSE (IF Head(chs).error = <<>> THEN Len(ChannelOf(p, Head(chs).name).samples) ELSE 0)
         + CommittedRows(p, Tail(chs))

\* The rows of the channels listed without an error are in the store, and
\* total_rows is their number.
Committed ==
    /\ \A j \in 1..Len(i_channels) :
           i_channels[j].error = <<>> =>
               \A n \in 1..Len(ChannelOf(i_path, i_channels[j].name).samples) :
                   \E i \in 1..Len(table) :
                       /\ table[i].channel = i_channels[j].name
                       /\ table[i].file_name = PathName(i_path)
                       /\ table[i].time =
                              DISK[i_path].start_time
                              + ChannelOf(i_path, i_channels[j].name).samples[n].ts
    /\ i_pc \in {"channel", "returned"} => i_total = CommittedRows(i_path, i_channels)
    /\ (i_pc = "returned" /\ i_result.kind = "summary") =>
           /\ i_result.total_rows = CommittedRows(i_path, i_channels)
           /\ i_result.channels = i_channels

\* C26: the rows of a channel that was committed are in the store in every
\* later state of the ingestion, whatever the later channels do and however
\* the call ends; no step removes a row; and total_rows, in the loop and in
\* the summary, is the number of rows of the channels listed without error.
C26_CommitPerChannel ==
    /\ []Committed
    /\ [][IsPrefix(table, table')]_table

\* Witness of C26: channel A was committed, the insert of channel B was
\* rejected by the store, and the summary counts the two rows of A.
C26_Witness ==
    /\ i_pc = "returned"
    /\ i_result.kind = "summary"
    /\ i_result.total_rows = 2
    /\ i_result.channels = <<[name |-> "A", error |-> <<>>],
                             [name |-> "B", error |-> <<"i", "n", "s", "e", "r", "t">>]>>
    /\ Len(table) = 2

\* The rows of the table written for the sample at offset ts of channel name
\* of the source file_name that starts at start.
RowsOf(file_name, name, start, ts) ==
    {i \in 1..Len(table) :
        /\ table[i].file_name = file_name
        /\ table[i].channel = name
        /\ table[i].time = start + ts}

\* C27: every sample of a channel that was written has its row (exactly one
\* after one ingestion of the file, and after any number of seedings); the
\* row's value is null exactly when the sample is not a finite number, and it
\* is the sample's number otherwise: no sample is stored as zero in place of
\* null, none is left out.
C27_OneRowPerSample ==
    /\ \A j \in 1..Len(i_channels) :
           i_channels[j].error = <<>> =>
               LET ch == ChannelOf(i_path, i_channels[j].name) IN
               \A n \in 1..Len(ch.samples) :
                   LET rs == RowsOf(PathName(i_path), ch.name, DISK[i_path].start_time,
                                    ch.samples[n].ts)
                   IN
                   /\ rs # {}
                   /\ ingests = 1 => Cardinality(rs) = 1
                   /\ \A i \in rs :
                          /\ table[i].value.null <=> ~ch.samples[n].finite
                          /\ ~table[i].value.null => table[i].value.v = ch.samples[n].v
    /\ \A k \in 1..Len(SEED_RUNS) :
           (k <= seed_idx \/ \E i \in 1..Len(table) :
                                table[i].file_name = SEED_RUNS[k].file_name) =>
               \A c \in 1..Len(SEED_RUNS[k].channels) :
                   LET ch == SEED_RUNS[k].channels[c] IN
                   \A n \in 1..Len(ch.samples) :
                       LET rs == RowsOf(SEED_RUNS[k].file_name, ch.name,
                                        SEED_RUNS[k].start, n - 1)
                       IN
                       /\ Cardinality(rs) = 1
                       /\ \A i \in rs :
                              /\ table[i].value.null <=> ~ch.samples[n].finite
                              /\ ~table[i].value.null => table[i].value.v = ch.samples[n].v

\* Witness of C27: after a seeding and one ingestion the table holds the
\* null row of the sample of channel A that is not finite, and the row of
\* the seeded sample whose value is zero.
C27_Witness ==
    /\ i_pc = "returned"
    /\ i_result.kind = "summary"
    /\ ingests = 1
    /\ \E i \in 1..Len(table) :
           /\ table[i].channel = "A"
           /\ table[i].time = 101
           /\ table[i].value.null
    /\ \E i \in 1..Len(table) :
           /\ table[i].file_name = <<"c", ".", "m", "f", "4">>
           /\ table[i].time = 200
           /\ table[i].value = [null |-> FALSE, v |-> 0]

\* ---------------------------------------------------------- tools: claims
\* C25: the connections open are those of the calls that stand between their
\* get_connection() and their finally clause; a call that has returned, with
\* a value or with an error, holds none, and with no call under way no
\* connection is open.
C25_ConnectionsReleased ==
    /\ open_conns =
           (IF q_pc = "execute" THEN 1 ELSE 0)
           + Cardinality({w \in Workers : p_pc[w] = "execute"})
           + (IF i_pc \in {"open", "channel"} THEN 1 ELSE 0)
    /\ q_acquired <= 1 /\ i_acquired <= 1 /\ \A w \in Workers : p_acquired[w] <= 1
    /\ (/\ q_pc \in {"idle", "returned"}
        /\ i_pc \in {"idle", "returned"}
        /\ \A w \in Workers : p_pc[w] \in {"idle", "returned"}) => open_conns = 0

\* Witness of C25: an ingestion that had acquired its connection was left by
\* an exception of the MDF reader, and no connection is open.
C25_Witness ==
    /\ i_pc = "returned"
    /\ i_acquired = 1
    /\ i_result.kind = "error"
    /\ i_result.error = <<"n", "o", "t", " ", "M", "D", "F">>
    /\ open_conns = 0


\* C18: no tool lets an exception out, whatever fails (the import, the
\* connection, the file, the statement, the rendering, the sweep): a call
\* that has ended has returned a value, and a failure is in that value.
C18_ToolsNeverRaise ==
    /\ ~q_raised /\ ~i_raised /\ \A w \in Workers : ~p_raised[w]
    /\ q_pc = "returned" => q_result.kind \in {"error", "rows"}
    /\ i_pc = "returned" => i_result.kind \in {"error", "summary"}
    /\ \A w \in Workers : p_pc[w] = "returned" => p_result[w] # <<>>
    /\ (i_pc = "returned" /\ i_acquired = 0) => i_result.kind = "error"
    /\ (q_pc = "returned" /\ q_acquired = 0) => q_result.kind = "error"
    /\ \A w \in Workers :
           (p_pc[w] = "returned" /\ p_acquired[w] = 0) =>
               SubSeq(p_result[w], 1, 12) = <<"P", "l", "o", "t", " ", "e", "r", "r", "o", "r", ":", " ">>

\* Witness of C18: the store was unreachable and ingest_mdf_to_db returned
\* the error.
C18_Witness ==
    /\ i_pc = "returned"
    /\ i_path \in DOMAIN DISK
    /\ i_acquired = 0
    /\ i_result.kind = "error"
    /\ i_result.error = <<"d", "b", " ", "e", "r", "r", "o", "r">>
    /\ ~i_raised

\* ======================================================== the chat client
\* on_message of frontend/app.py: it posts the message to /chat/stream and
\* reads the SSE lines of the turn that handler 1 serves.
STEP_OUTPUT_MAX == 3000

VARIABLES
    c_pc,           \* where on_message stands: "idle", "reading", "ended", "cancelled", "failed"
    c_pos,          \* SSE lines of the response read so far
    c_turn,         \* calls of on_message so far
    active_steps,   \* the dict run_id -> step of the running on_message: pairs <<run_id, step>>
    steps,          \* every cl.Step sent, in the order of step.send()
    c_content,      \* the tokens streamed into msg
    plot_elements,  \* the paths of the figures fetched
    c_effects       \* what each line read in this turn did

clientVars ==
    <<c_pc, c_pos, c_turn, active_steps, steps, c_content, plot_elements, c_effects>>

InitClient ==
    /\ c_pc = "idle"
    /\ c_pos = 0
    /\ c_turn = 0
    /\ active_steps = {}
    /\ steps = <<>>
    /\ c_content = <<>>
    /\ plot_elements = <<>>
    /\ c_effects = <<>>

\* Mutant of NewStepTable: the table is kept from one message to the next.
KeepStepTable(old) == old

\* app.py:76: active_steps = {}, a local of the call.
NewStepTable(old) == {}

\* Mutant of DictSet: the earlier record of the key is kept beside the new one.
DictAdd(tbl, k, v) == tbl \cup {<<k, v>>}

\* active_steps[run_id] = step
DictSet(tbl, k, v) == {p \in tbl : p[1] # k} \cup {<<k, v>>}

\* active_steps.pop(run_id, None): the table without the key.
DictPop(tbl, k) == {p \in tbl : p[1] # k}

\* output[:3000] if len(output) > 3000 else output
Truncate(o) == IF Len(o) > STEP_OUTPUT_MAX THEN SubSeq(o, 1, STEP_OUTPUT_MAX) ELSE o

\* cl.Step(name=..., type="tool", parent_id=msg.id) with its input, as sent.
NewStep(data, turn) ==
    [run_id |-> data.run_id, name |-> data.name, input |-> data.input, output |-> <<>>,
     updates |-> 0, turn |-> turn, closed |-> 0]

\* The user sends a message: on_message starts (lines 69-88) and the backend
\* accepts the POST. The stop button and the end of the chat session are the
\* only other handlers; a message is sent when no earlier one is being served.
ClientMessage(m) ==
    /\ c_pc \in {"idle", "ended", "cancelled", "failed"}
    /\ ChatStream(1, "s1", m)
    /\ c_pc' = "reading"
    /\ c_pos' = 0
    /\ c_turn' = c_turn + 1
    /\ active_steps' = NewStepTable(active_steps)
    /\ c_content' = <<>>
    /\ plot_elements' = <<>>
    /\ c_effects' = <<>>
    /\ UNCHANGED steps

\* One line of the response is read and handled (lines 91-126). fetch_ok
\* says whether the GET of a figure and pio.from_json succeed; when they do
\* not, the exception ends on_message.
ClientRead(fetch_ok) ==
    /\ c_pc = "reading"
    /\ c_pos < Len(out[1])
    /\ LET data == out[1][c_pos + 1]
           found == {p \in active_steps : p[1] = data.run_id}
       IN
       /\ data.type # "plotly" => fetch_ok
       /\ IF data.type = "plotly" /\ ~fetch_ok
          THEN /\ c_pc' = "failed"
               /\ UNCHANGED <<c_pos, active_steps, steps, c_content, plot_elements, c_effects>>
          ELSE
          /\ c_pos' = c_pos + 1
          /\ c_pc' = IF data.type = "[DONE]" THEN "ended" ELSE "reading"
          /\ c_content' = IF data.type = "token" THEN c_content \o data.token ELSE c_content
          /\ plot_elements' =
                 IF data.type = "plotly" THEN Append(plot_elements, data.path)
                 ELSE plot_elements
          /\ active_steps' =
                 IF data.type = "tool_start"
                 THEN DictSet(active_steps, data.run_id, Len(steps) + 1)
                 ELSE IF data.type = "tool_end" THEN DictPop(active_steps, data.run_id)
                 ELSE active_steps
          /\ steps' =
                 IF data.type = "tool_start" THEN Append(steps, NewStep(data, c_turn))
                 ELSE IF data.type = "tool_end" /\ found # {}
                 THEN LET i == (CHOOSE p \in found : TRUE)[2] IN
                      [steps EXCEPT ![i].output = Truncate(data.output),
                                    ![i].updates = @ + 1,
                                    ![i].closed = c_turn]
                 ELSE steps
          /\ c_effects' =
                 Append(c_effects,
                        IF data.type = "tool_start" THEN "opened"
                        ELSE IF data.type = "tool_end" /\ found # {} THEN "closed"
                        ELSE IF data.type = "tool_end" THEN "noop"
                        ELSE data.type)
    /\ UNCHANGED c_turn

\* The response ends without the [DONE] line (the backend's generator was
\* closed or raised): readline() returns b"" and the loop is left, or the
\* transport reports the broken response and the exception ends on_message.
ClientEof(clean) ==
    /\ c_pc = "reading"
    /\ c_pos = Len(out[1])
    /\ pc[1] \in {"cancelled", "failed", "crashed"}
    /\ c_pc' = IF clean THEN "ended" ELSE "failed"
    /\ UNCHANGED <<c_pos, c_turn, active_steps, steps, c_content, plot_elements, c_effects>>

\* on_stop or on_chat_end: _cancel_message_task() cancels the task of the
\* running on_message (lines 47-63).
ClientStop ==
    /\ c_pc = "reading"
    /\ c_pc' = "cancelled"
    /\ UNCHANGED <<c_pos, c_turn, active_steps, steps, c_content, plot_elements, c_effects>>

\* ------------------------------------------------------- the client: claims
\* Line k of the response is read while a tool_start of run r, read earlier
\* in the turn, has had no tool_end of r after it.
OpenBefore(k, r) ==
    \E j \in 1..(k - 1) :
        /\ out[1][j].type = "tool_start"
        /\ out[1][j].run_id = r
        /\ \A i \in (j + 1)..(k - 1) :
               ~(out[1][i].type = "tool_end" /\ out[1][i].run_id = r)

\* C21: the step table holds at most one record per run_id, and only steps
\* that have not been updated; a tool_end whose run has an open record
\* updates that step once and removes the record, one without an open record
\* changes nothing and the reading goes on (the turn fails only by a figure
\* that cannot be fetched or by a broken response); and the multiplexer,
\* which keeps no record, forwards every tool end it has handled.
C21_OneRecordPerRun ==
    /\ \A p, q \in active_steps : p[1] = q[1] => p = q
    /\ \A p \in active_steps :
           /\ p[2] \in 1..Len(steps)
           /\ steps[p[2]].run_id = p[1]
           /\ steps[p[2]].updates = 0
    /\ \A i \in 1..Len(steps) : steps[i].updates <= 1
    /\ Len(c_effects) = c_pos
    /\ c_pos <= Len(out[1])
    /\ \A k \in 1..c_pos :
           out[1][k].type = "tool_end" =>
               c_effects[k] = IF OpenBefore(k, out[1][k].run_id) THEN "closed" ELSE "noop"
    /\ Cardinality({i \in 1..Len(steps) : steps[i].closed = c_turn /\ c_turn > 0})
           = Cardinality({k \in 1..c_pos : c_effects[k] = "closed"})
    /\ c_pc = "failed" =>
           \/ c_pos < Len(out[1]) /\ out[1][c_pos + 1].type = "plotly"
           \/ c_pos = Len(out[1]) /\ pc[1] \in {"cancelled", "failed", "crashed"}
    /\ pc[1] # "crashed"
    /\ \A p \in 1..Len(raw[1]) :
           (raw[1][p].event = "on_tool_end" /\ Processed(1, p)) =>
               \E i \in 1..Len(out[1]) :
                   /\ prov[1][i] = p
                   /\ out[1][i].type = "tool_end"
                   /\ out[1][i].run_id = raw[1][p].run_id

\* Witness of C21: the first turn read two tool_start lines of run A and
\* no tool_end; the second turn read a tool_start of A and its tool_end.
C21_Witness ==
    /\ c_turn = 2
    /\ c_effects = <<"opened", "closed">>
    /\ active_steps = {}
    /\ Len(steps) = 3
    /\ steps[1].run_id = "A" /\ steps[2].run_id = "A"
    /\ steps[1].updates = 0 /\ steps[2].updates = 0
    /\ steps[3].updates = 1
    /\ steps[3].output = <<"o", "k">>

\* C22: a record of the step table belongs to the running turn: the table
\* is empty when a turn starts to read, however the turn before it ended,
\* and a step is closed only in the turn that opened it.
C22_TurnScoped ==
    /\ (c_pc = "reading" /\ c_pos = 0) => active_steps = {}
    /\ \A p \in active_steps : p[2] \in 1..Len(steps) /\ steps[p[2]].turn = c_turn
    /\ \A i \in 1..Len(steps) : steps[i].closed \in {0, steps[i].turn}

\* Witness of C22: the first turn was stopped with the step of run A open;
\* the second turn read a tool_end of A, which closed nothing.
C22_Witness ==
    /\ c_turn = 2
    /\ Len(steps) = 1
    /\ steps[1].turn = 1
    /\ steps[1].run_id = "A"
    /\ steps[1].closed = 0
    /\ c_pos >= 1
    /\ out[1][1].type = "tool_end"
    /\ out[1][1].run_id = "A"
    /\ c_effects[1] = "noop"

\* ========================================================= specifications
vars == <<sessionVars, open_conns, gateVars, plotVars, ingestVars, seed_idx, clientVars>>

InitAll(l) ==
    /\ InitSession(l)
    /\ open_conns = 0
    /\ InitGate
    /\ InitPlots
    /\ InitIngest
    /\ seed_idx = 0
    /\ InitClient

ToolsFrame == UNCHANGED <<open_conns, gateVars, plotVars, ingestVars, seed_idx>>
SessionFrame == ToolsFrame /\ UNCHANGED clientVars
GateFrame == UNCHANGED <<sessionVars, plotVars, ingestVars, seed_idx, clientVars>>
PlotFrame == UNCHANGED <<sessionVars, gateVars, ingestVars, seed_idx, clientVars>>
IngestFrame == UNCHANGED <<sessionVars, gateVars, plotVars, seed_idx, clientVars>>
SeedFrame == UNCHANGED <<sessionVars, gateVars, plotVars, clientVars>>
ClientFrame == ToolsFrame /\ UNCHANGED sessionVars

\* Turns run one after another: a request is accepted only when no other
\* request is being served.
Next ==
    \/ \E s \in lim.sessions, m \in UserMessages(nturns + 1) :
           AllFree /\ ChatStream(1, s, m) /\ SessionFrame
    \/ \E s \in lim.sessions, m \in UserMessages(nturns + 1) :
           AllFree /\ Chat(1, s, m) /\ SessionFrame
    \/ GenStart(1) /\ SessionFrame
    \/ \E ev \in Alphabet : RawEvent(1, ev) /\ SessionFrame
    \/ Resume(1) /\ SessionFrame
    \/ StreamEnd(1) /\ SessionFrame
    \/ EmitDone(1) /\ SessionFrame
    \/ Finish(1) /\ SessionFrame
    \/ Cancel(1) /\ SessionFrame
    \/ RawFail(1) /\ SessionFrame
    \/ \E c \in Replies : ChatReturn(1, c) /\ SessionFrame
    \/ ChatFail(1) /\ SessionFrame

\* Turns on the sessions, one after another.
Init ==
    InitAll([events |-> MaxSessionEvents, turns |-> MaxTurns, alphabet |-> "small",
             sessions |-> Sessions])
Spec == Init /\ [][Next]_vars

\* Two requests, served by two handlers at once, on the same session or not.
NextConc ==
    \/ \E g \in Gens, s \in lim.sessions, m \in UserMessages(nturns + 1) :
           ChatStream(g, s, m) /\ SessionFrame
    \/ \E g \in Gens, s \in lim.sessions, m \in UserMessages(nturns + 1) :
           Chat(g, s, m) /\ SessionFrame
    \/ \E g \in Gens : GenStart(g) /\ SessionFrame
    \/ \E g \in Gens, ev \in Alphabet : RawEvent(g, ev) /\ SessionFrame
    \/ \E g \in Gens : Resume(g) /\ SessionFrame
    \/ \E g \in Gens : StreamEnd(g) /\ SessionFrame
    \/ \E g \in Gens : EmitDone(g) /\ SessionFrame
    \/ \E g \in Gens : Finish(g) /\ SessionFrame
    \/ \E g \in Gens : Cancel(g) /\ SessionFrame
    \/ \E g \in Gens : RawFail(g) /\ SessionFrame
    \/ \E g \in Gens, c \in Replies : ChatReturn(g, c) /\ SessionFrame
    \/ \E g \in Gens : ChatFail(g) /\ SessionFrame
InitConc ==
    InitAll([events |-> MaxConcEvents, turns |-> Cardinality(Gens), alphabet |-> "small",
             sessions |-> Sessions])
SpecConc == InitConc /\ [][NextConc]_vars

\* The chat client and the streaming endpoint that serves it, over the raw
\* events of tool runs: a message and the message after it.
NextClient ==
    \/ \E m \in UserMessages(nturns + 1) : ClientMessage(m) /\ ToolsFrame
    \/ GenStart(1) /\ SessionFrame
    \/ \E ev \in Alphabet : RawEvent(1, ev) /\ SessionFrame
    \/ Resume(1) /\ SessionFrame
    \/ StreamEnd(1) /\ SessionFrame
    \/ EmitDone(1) /\ SessionFrame
    \/ Finish(1) /\ SessionFrame
    \/ Cancel(1) /\ SessionFrame
    \/ RawFail(1) /\ SessionFrame
    \/ \E ok \in BOOLEAN : ClientRead(ok) /\ ClientFrame
    \/ \E clean \in BOOLEAN : ClientEof(clean) /\ ClientFrame
    \/ ClientStop /\ ClientFrame
InitClientSpec ==
    InitAll([events |-> MaxClientEvents, turns |-> 2, alphabet |-> "tools",
             sessions |-> {"s1"}])
SpecClient == InitClientSpec /\ [][NextClient]_vars

\* One turn, over the full alphabet of raw events.
InitTurn ==
    InitAll([events |-> MaxEvents, turns |-> 1, alphabet |-> "rich",
             sessions |-> {"s1"}])
SpecTurn == InitTurn /\ [][Next]_vars

\* One turn, over raw events of every shape.
InitShapes ==
    InitAll([events |-> MaxShapeEvents, turns |-> 1, alphabet |-> "shapes",
             sessions |-> {"s1"}])
SpecShapes == InitShapes /\ [][Next]_vars

\* Calls of query_sensor_data, one at a time.
NextGate ==
    \/ \E sql \in QueryInputs : QueryCall(sql) /\ GateFrame
    \/ QueryGate /\ GateFrame
    \/ \E ok \in BOOLEAN : QueryConnect(ok) /\ GateFrame
    \/ \E ok \in BOOLEAN, n \in QueryMatches : QueryExecute(ok, n) /\ GateFrame
SpecGate == Init /\ [][NextGate]_vars

\* Calls of the chart tools, one at a time, and the clock.
NextPlots ==
    \/ \E tool \in PlotTools, sql \in PlotQueries, title \in PlotTitles :
           PlotCall(1, tool, sql, title) /\ PlotFrame
    \/ \E ok \in BOOLEAN : PlotConnect(1, ok) /\ PlotFrame
    \/ \E ok \in BOOLEAN, n \in PlotRowCounts : PlotExecute(1, ok, n) /\ PlotFrame
    \/ \E ok \in BOOLEAN : PlotRender(1, ok) /\ PlotFrame
    \/ \E name \in p_listing[1] : PurgeStep(1, name) /\ PlotFrame
    \/ \E uid \in Ids : PlotSave(1, uid) /\ PlotFrame
    \/ \E d \in ClockSteps : Tick(d) /\ PlotFrame
SpecPlots == Init /\ [][NextPlots]_vars

\* Calls of plot_timeseries on two worker threads, each with a query that
\* returns rows and a figure that renders, and the clock.
NextSweep ==
    \/ \E w \in Workers, title \in PlotTitles :
           PlotCall(w, "plot_timeseries", <<"S", "E", "L", "E", "C", "T", " ", "1">>, title)
           /\ PlotFrame
    \/ \E w \in Workers : PlotConnect(w, TRUE) /\ PlotFrame
    \/ \E w \in Workers : PlotExecute(w, TRUE, 2) /\ PlotFrame
    \/ \E w \in Workers : PlotRender(w, TRUE) /\ PlotFrame
    \/ \E w \in Workers : \E name \in p_listing[w] : PurgeStep(w, name) /\ PlotFrame
    \/ \E w \in Workers, uid \in Ids : PlotSave(w, uid) /\ PlotFrame
    \/ \E d \in ClockSteps : Tick(d) /\ PlotFrame
SpecSweep == Init /\ [][NextSweep]_vars

\* Calls of ingest_mdf_to_db, one at a time.
NextIngest ==
    \/ \E path \in IngestPaths : IngestCall(path) /\ IngestFrame
    \/ \E ok \in BOOLEAN : IngestCheck(ok) /\ IngestFrame
    \/ \E ok \in BOOLEAN : IngestConnect(ok) /\ IngestFrame
    \/ \E ok \in BOOLEAN : IngestOpen(ok) /\ IngestFrame
    \/ \E d \in BOOLEAN, ins \in InsertOutcomes : IngestChannel(d, ins) /\ IngestFrame
    \/ IngestReturn /\ IngestFrame
    \/ IngestAbort /\ IngestFrame
SpecIngest == Init /\ [][NextIngest]_vars

\* Calls of ingest_mdf_to_db, and runs of the seed script on the same store.
NextSeed ==
    \/ \E path \in IngestPaths : IngestCall(path) /\ IngestFrame
    \/ \E ok \in BOOLEAN : IngestCheck(ok) /\ IngestFrame
    \/ \E ok \in BOOLEAN : IngestConnect(ok) /\ IngestFrame
    \/ \E ok \in BOOLEAN : IngestOpen(ok) /\ IngestFrame
    \/ \E d \in BOOLEAN, ins \in InsertOutcomes : IngestChannel(d, ins) /\ IngestFrame
    \/ IngestReturn /\ IngestFrame
    \/ IngestAbort /\ IngestFrame
    \/ SeedRun /\ SeedFrame
    \/ SeedAgain /\ SeedFrame
SpecSeed == Init /\ [][NextSeed]_vars

\* The four agent-callable tools; a run exercises one of them (the tools
\* share nothing but the store), with the clock standing still.
GateOnly == i_pc = "idle" /\ \A w \in Workers : p_pc[w] = "idle"
PlotsOnly == i_pc = "idle" /\ q_pc = "idle"
IngestOnly == q_pc = "idle" /\ \A w \in Workers : p_pc[w] = "idle"
NextTools ==
    \/ \E sql \in QueryInputs : GateOnly /\ QueryCall(sql) /\ GateFrame
    \/ QueryGate /\ GateFrame
    \/ \E ok \in BOOLEAN : QueryConnect(ok) /\ GateFrame
    \/ \E ok \in BOOLEAN, n \in QueryMatches : QueryExecute(ok, n) /\ GateFrame
    \/ \E tool \in PlotTools, sql \in PlotQueries, title \in PlotTitles :
           PlotsOnly /\ PlotCall(1, tool, sql, title) /\ PlotFrame
    \/ \E ok \in BOOLEAN : PlotConnect(1, ok) /\ PlotFrame
    \/ \E ok \in BOOLEAN, n \in PlotRowCounts : PlotExecute(1, ok, n) /\ PlotFrame
    \/ \E ok \in BOOLEAN : PlotRender(1, ok) /\ PlotFrame
    \/ \E name \in p_listing[1] : PurgeStep(1, name) /\ PlotFrame
    \/ \E uid \in Ids : PlotSave(1, uid) /\ PlotFrame
    \/ \E path \in IngestPaths : IngestOnly /\ IngestCall(path) /\ IngestFrame
    \/ \E ok \in BOOLEAN : IngestCheck(ok) /\ IngestFrame
    \/ \E ok \in BOOLEAN : IngestConnect(ok) /\ IngestFrame
    \/ \E ok \in BOOLEAN : IngestOpen(ok) /\ IngestFrame
    \/ \E d \in BOOLEAN, ins \in InsertOutcomes : IngestChannel(d, ins) /\ IngestFrame
    \/ IngestReturn /\ IngestFrame
    \/ IngestAbort /\ IngestFrame
SpecTools == Init /\ [][NextTools]_vars

====
